---- MODULE Spec2Model ----
(***************************************************************************)
(* Model of the task scheduler of TSimms253/todo_list: scheduleTasks and   *)
(* its helpers, in the version with deadline-critical bumping.  One run of *)
(* scheduleTasks is a behaviour: Init is the state after its set-up, each  *)
(* iteration of the main loop and of the reschedule pass is a step.  Time  *)
(* is counted in whole minutes since the epoch; a date that is absent      *)
(* (undefined / null) is NoDate.  The variable log records what each       *)
(* iteration decided.  The variable search holds one call of               *)
(* findNextAvailableSlot taken an iteration of its loop at a time.  The    *)
(* controller's task array is store; httpReq is the request being handled *)
(* with the store as it found it, httpRes the response, clock the number  *)
(* of requests handled so far.  The variable call holds one call of a     *)
(* helper function taken on its own: its arguments and, once it has       *)
(* returned, its value; where scheduleTasks or a schedule request is taken *)
(* twice, call holds what the first of the two left behind.                *)
(***************************************************************************)
EXTENDS Integers, Sequences, FiniteSets, TLC

VARIABLES tasks, request, now, pc, sortedTasksToSchedule, idx, timeSlots,
          scheduledTasks, tasksToReschedule, ridx, rescheduledTasks, result,
          log, search, call, store, httpReq, httpRes, clock

vars == << tasks, request, now, pc, sortedTasksToSchedule, idx, timeSlots,
           scheduledTasks, tasksToReschedule, ridx, rescheduledTasks, result,
           log, search, call, store, httpReq, httpRes, clock >>

controllerVars == << store, httpReq, httpRes, clock >>

schedulerVars == << tasks, request, now, pc, sortedTasksToSchedule, idx, timeSlots,
                    scheduledTasks, tasksToReschedule, ridx, rescheduledTasks,
                    result, log >>

----------------------------------------------------------------------------
(* Time and the Date methods the scheduler uses *)

MinutesPerHour == 60
MinutesPerDay == 1440
NoDate == -1
DefaultDuration == 60
RetryStep == 15

Max(a, b) == IF a > b THEN a ELSE b

getUTCHours(t) == (t % MinutesPerDay) \div MinutesPerHour

\* minutes since midnight: getUTCHours() * 60 + getUTCMinutes()
MinuteOfDay(t) == t % MinutesPerDay

\* d.setUTCHours(h, 0, 0, 0)
setUTCHours(t, h) == (t \div MinutesPerDay) * MinutesPerDay + h * MinutesPerHour

\* d.setUTCHours(23, 59, 59, 999): the last instant of the day; every time
\* of the model is a whole minute, so the last minute stands for it
EndOfDay(t) == (t \div MinutesPerDay) * MinutesPerDay + (MinutesPerDay - 1)

\* d.setUTCDate(d.getUTCDate() + 1)
AddDay(t) == t + MinutesPerDay

----------------------------------------------------------------------------
(* Scoring *)

PRIORITY_WEIGHTS(p) ==
  CASE p = "urgent" -> 4
    [] p = "high"   -> 3
    [] p = "medium" -> 2
    [] p = "low"    -> 1

\* the bands closed at their upper ends
calculateUrgencyScore_InclusiveUpper(dueDate, n) ==
  IF dueDate = NoDate THEN 0
  ELSE LET d == dueDate - n IN
       IF d <= 0 THEN 10
       ELSE IF d <= 1 * MinutesPerDay THEN 8
       ELSE IF d <= 3 * MinutesPerDay THEN 6
       ELSE IF d <= 7 * MinutesPerDay THEN 4
       ELSE IF d <= 14 * MinutesPerDay THEN 2
       ELSE 1

calculateUrgencyScore(dueDate, n) ==
  IF dueDate = NoDate THEN 0
  ELSE LET d == dueDate - n IN
       IF d < 0 THEN 10
       ELSE IF d < 1 * MinutesPerDay THEN 8
       ELSE IF d < 3 * MinutesPerDay THEN 6
       ELSE IF d < 7 * MinutesPerDay THEN 4
       ELSE IF d < 14 * MinutesPerDay THEN 2
       ELSE 1

\* urgency weighted above priority
calculateTaskScore_UrgencyFirst(task, n) ==
  PRIORITY_WEIGHTS(task.priority) + calculateUrgencyScore(task.dueDate, n) * 10

calculateTaskScore(task, n) ==
  PRIORITY_WEIGHTS(task.priority) * 10 + calculateUrgencyScore(task.dueDate, n)

----------------------------------------------------------------------------
(* Deadline helpers *)

\* an end at the due date counts as missing it
wouldMissDueDate_AtOrAfter(task, scheduledEndTime) ==
  IF task.dueDate = NoDate THEN FALSE ELSE scheduledEndTime >= task.dueDate

wouldMissDueDate(task, scheduledEndTime) ==
  IF task.dueDate = NoDate THEN FALSE ELSE scheduledEndTime > task.dueDate

isDeadlineCritical(task, scheduledEndTime) ==
  IF task.priority = "low" THEN FALSE
  ELSE IF task.priority \in {"medium", "high"}
       THEN wouldMissDueDate(task, scheduledEndTime)
       ELSE FALSE

\* Math.floor(daysAvailable * workingHoursPerDay * 60)
calculateAvailableWorkingMinutes(fromDate, toDate, whStart, whEnd) ==
  ((toDate - fromDate) * (whEnd - whStart) * MinutesPerHour) \div MinutesPerDay

canBeSafelyPushed(task, currentScheduledEnd, duration, whStart, whEnd) ==
  IF task.dueDate = NoDate THEN TRUE
  ELSE IF currentScheduledEnd >= task.dueDate THEN FALSE
  ELSE calculateAvailableWorkingMinutes(currentScheduledEnd, task.dueDate,
                                        whStart, whEnd) >= duration

canCompleteBeforeDueTime(proposedStartTime, duration, dueDate) ==
  proposedStartTime + duration <= dueDate

\* the default is forgotten
DurationOf_NoDefault(task) == task.estimatedDuration

\* task.estimatedDuration || 60
DurationOf(task) ==
  IF task.estimatedDuration = 0 THEN DefaultDuration ELSE task.estimatedDuration

\* the task due first always wins
shouldPrioritizeByDueTime_EarlierDueWins(currentTask, currentScheduledStart, currentScheduledEnd, conflictingTask, conflictingScheduledStart, conflictingScheduledEnd) ==
  /\ currentTask.dueDate # NoDate
  /\ conflictingTask.dueDate # NoDate
  /\ currentTask.dueDate < conflictingTask.dueDate

shouldPrioritizeByDueTime(currentTask, currentScheduledStart, currentScheduledEnd, conflictingTask, conflictingScheduledStart, conflictingScheduledEnd) ==
  IF currentTask.dueDate = NoDate \/ conflictingTask.dueDate = NoDate THEN FALSE
  ELSE
    LET currentDueDate == currentTask.dueDate
        conflictingDueDate == conflictingTask.dueDate
        currentDuration == DurationOf(currentTask)
        conflictingDuration == DurationOf(conflictingTask)
    IN IF currentDueDate < conflictingDueDate
       THEN IF ~canCompleteBeforeDueTime(currentScheduledStart, currentDuration,
                                         currentDueDate)
            THEN TRUE
            ELSE canCompleteBeforeDueTime(currentScheduledEnd, conflictingDuration,
                                          conflictingDueDate)
       ELSE LET conflictingCanComplete ==
                  canCompleteBeforeDueTime(conflictingScheduledStart,
                                           conflictingDuration, conflictingDueDate)
                currentCanCompleteAfter ==
                  canCompleteBeforeDueTime(conflictingScheduledEnd,
                                           currentDuration, currentDueDate)
            IN IF conflictingCanComplete /\ currentCanCompleteAfter THEN FALSE
               ELSE IF ~conflictingCanComplete
                    THEN canCompleteBeforeDueTime(currentScheduledStart,
                                                  currentDuration, currentDueDate)
                    ELSE FALSE

----------------------------------------------------------------------------
(* Slot search *)

\* only the slots the candidate start lies in count
timeSlotsOverlap_StartInside(start1, end1, start2, end2) == start2 <= start1 /\ start1 < end2

timeSlotsOverlap(start1, end1, start2, end2) == start1 < end2 /\ start2 < end1

\* indices, in order, of the slots that overlap [s, e)
OverlappingSlots(slots, s, e) ==
  SelectSeq([k \in 1..Len(slots) |-> k],
            LAMBDA k : timeSlotsOverlap(s, e, slots[k].startTime, slots[k].endTime))

\* the latest end of all the slots, conflicting or not
LatestEndTime_AllSlots(slots, ks) ==
  LET ends == {slots[n].endTime : n \in 1..Len(slots)} \cup {0}
  IN CHOOSE m \in ends : \A x \in ends : x <= m

\* conflictingSlots.reduce(..., new Date(0))
LatestEndTime(slots, ks) ==
  LET ends == {slots[ks[n]].endTime : n \in 1..Len(ks)} \cup {0}
  IN CHOOSE m \in ends : \A x \in ends : x <= m

RECURSIVE SlotLoop(_, _, _, _, _, _)
SlotLoop(currentTime, duration, existingSlots, whStart, whEnd, endDate) ==
  IF ~(currentTime <= endDate) THEN NoDate
  ELSE
    LET proposedEndTime == currentTime + duration
        \* endHour > workingHoursEnd, with endHour = hours + minutes / 60
        exceeds == MinuteOfDay(proposedEndTime) > whEnd * MinutesPerHour
        conflictingSlots == OverlappingSlots(existingSlots, currentTime, proposedEndTime)
    IN IF exceeds
       THEN SlotLoop(setUTCHours(AddDay(currentTime), whStart), duration,
                     existingSlots, whStart, whEnd, endDate)
       ELSE IF Len(conflictingSlots) = 0 THEN currentTime
       ELSE IF Len(conflictingSlots) > 0
            THEN SlotLoop(LatestEndTime(existingSlots, conflictingSlots), duration,
                          existingSlots, whStart, whEnd, endDate)
            ELSE SlotLoop(currentTime + RetryStep, duration,
                          existingSlots, whStart, whEnd, endDate)

findNextAvailableSlot(startTime, duration, existingSlots, whStart, whEnd, endDate) ==
  LET currentTime == IF getUTCHours(startTime) < whStart
                     THEN setUTCHours(startTime, whStart)
                     ELSE startTime
  IN SlotLoop(currentTime, duration, existingSlots, whStart, whEnd, endDate)

\* no call of findNextAvailableSlot is being followed
NoSearch == [pc |-> "none"]

\* no call of a helper function is being followed on its own
NoCall == [pc |-> "none"]

\* the controller has handled no request
ControllerIdle ==
  /\ store = << >>
  /\ httpReq = [op |-> "none", deleted |-> {}]
  /\ httpRes = [status |-> 0, message |-> "", data |-> << >>]
  /\ clock = 0

----------------------------------------------------------------------------
(* findNextAvailableSlot, an iteration of its while loop at a time: search  *)
(* holds the call's arguments, its local currentTime, its position pc       *)
(* ("loop", "returned" with currentTime as the value, "null") and taken,    *)
(* the branches the loop has taken so far.                                  *)

\* lines 260-265: the call on entry to the while loop
EnterLoop(startTime, duration, existingSlots, whStart, whEnd, endDate) ==
  [ pc |-> "loop",
    startTime |-> startTime,
    duration |-> duration,
    existingSlots |-> existingSlots,
    workingHoursStart |-> whStart,
    workingHoursEnd |-> whEnd,
    endDate |-> endDate,
    currentTime |-> IF getUTCHours(startTime) < whStart
                    THEN setUTCHours(startTime, whStart)
                    ELSE startTime,
    taken |-> {} ]

\* the day is never advanced
NextDayAt_SameDay(t, whStart) == setUTCHours(t, whStart)

\* lines 274-275: setUTCDate(getUTCDate() + 1), setUTCHours(workingHoursStart, 0, 0, 0)
NextDayAt(t, whStart) == setUTCHours(AddDay(t), whStart)

\* line 272: endHour > workingHoursEnd
ExceedsWorkingHours(t, whEnd) == MinuteOfDay(t) > whEnd * MinutesPerHour

\* line 267: the loop condition
InLoop == search.pc = "loop" /\ search.currentTime <= search.endDate

\* line 268
proposedEnd == search.currentTime + search.duration

\* lines 289-291
conflictingNow == OverlappingSlots(search.existingSlots, search.currentTime, proposedEnd)

\* lines 280-282: existingSlots.some(...)
hasConflict ==
  \E k \in 1..Len(search.existingSlots) :
    timeSlotsOverlap(search.currentTime, proposedEnd,
                     search.existingSlots[k].startTime, search.existingSlots[k].endTime)

\* lines 272-277
MoveToNextDay ==
  /\ InLoop
  /\ ExceedsWorkingHours(proposedEnd, search.workingHoursEnd)
  /\ search' = [search EXCEPT !.currentTime = NextDayAt(@, search.workingHoursStart),
                               !.taken = @ \cup {"nextDay"}]
  /\ UNCHANGED << schedulerVars, call, controllerVars >>

\* lines 284-286
ReturnSlot ==
  /\ InLoop
  /\ ~ExceedsWorkingHours(proposedEnd, search.workingHoursEnd)
  /\ ~hasConflict
  /\ search' = [search EXCEPT !.pc = "returned"]
  /\ UNCHANGED << schedulerVars, call, controllerVars >>

\* lines 293-301
MovePastConflicts ==
  /\ InLoop
  /\ ~ExceedsWorkingHours(proposedEnd, search.workingHoursEnd)
  /\ hasConflict
  /\ search' = [search EXCEPT
                  !.currentTime = IF Len(conflictingNow) > 0
                                  THEN LatestEndTime(search.existingSlots, conflictingNow)
                                  ELSE @ + RetryStep,
                  !.taken = @ \cup {"pastConflicts"}]
  /\ UNCHANGED << schedulerVars, call, controllerVars >>

\* lines 267, 304: the loop condition fails
ReturnNull ==
  /\ search.pc = "loop"
  /\ ~(search.currentTime <= search.endDate)
  /\ search' = [search EXCEPT !.pc = "null"]
  /\ UNCHANGED << schedulerVars, call, controllerVars >>

SearchNext == MoveToNextDay \/ ReturnSlot \/ MovePastConflicts \/ ReturnNull

----------------------------------------------------------------------------
(* scheduleTasks: inputs *)

MaxTasks == 3
MaxWindowDays == 2
StartDay == 1

At(d, h, m) == d * MinutesPerDay + h * MinutesPerHour + m

\* the instants at which the scheduler reads the clock (new Date())
Nows == {At(StartDay, 8, 0), At(StartDay - 1, 14, 0)}

\* a due date is absent, an absolute instant, or an offset from now
NoDue == [rel |-> FALSE, at |-> NoDate]
DueAt(t) == [rel |-> FALSE, at |-> t]
DueIn(days) == [rel |-> TRUE, at |-> days * MinutesPerDay]

Kind(p, due, dur) == [priority |-> p, due |-> due, estimatedDuration |-> dur]

RequestedKinds ==
  { Kind("urgent", DueIn(7), 120),
    Kind("urgent", NoDue, 0),
    Kind("high", DueIn(3), 180),
    Kind("high", DueAt(At(StartDay, 12, 0)), 60),
    Kind("high", DueAt(At(StartDay, 23, 0)), 120),
    Kind("medium", DueAt(At(StartDay, 11, 0)), 60),
    Kind("medium", DueAt(At(StartDay, 13, 0)), 60),
    Kind("medium", DueAt(At(StartDay, 15, 0)), 60),
    Kind("medium", DueAt(At(StartDay, 11, 0)), 120),
    Kind("medium", DueAt(At(StartDay, 12, 0)), 240),
    Kind("medium", NoDue, 0),
    Kind("low", DueAt(At(StartDay, 13, 0)), 60),
    Kind("low", NoDue, 960) }

\* tasks outside the request that already carry scheduled times
FixedEntries ==
  { [kind |-> Kind("low", NoDue, 60), fixedAt |-> At(StartDay, 9, 0)],
    [kind |-> Kind("high", DueAt(At(StartDay, 12, 0)), 60), fixedAt |-> At(StartDay, 10, 0)] }

\* a requested task that is overdue at every instant of Nows
OverdueKinds == { Kind("medium", DueAt(At(StartDay - 1, 12, 0)), 60) }

\* one entry of the task list: a requested task or a fixed one
Entries == [kind : RequestedKinds, fixedAt : {NoDate}] \cup FixedEntries

\* a requested task that still carries the scheduled times of an earlier run
StaleEntries ==
  { [kind |-> Kind("high", DueIn(3), 180), fixedAt |-> At(StartDay, 11, 0)] }

\* a task outside the request with a scheduled start and no scheduled end
HalfScheduledEntries ==
  { [kind |-> Kind("low", NoDue, 960), fixedAt |-> At(StartDay, 9, 0)] }

\* entries that occur only in task lists shorter than MaxTasks: an overdue
\* requested task, a fixed Low task with a due date, a requested task with
\* scheduled times and a task with one scheduled time
ExtraEntries ==
  [kind : OverdueKinds, fixedAt : {NoDate}]
    \cup { [kind |-> Kind("low", DueAt(At(StartDay, 13, 0)), 60), fixedAt |-> At(StartDay, 9, 0)] }
    \cup StaleEntries \cup HalfScheduledEntries

\* the entry's task is named in request.taskIds
Requested(e) == e.fixedAt = NoDate \/ e \in StaleEntries

EntriesFor(n) == IF n < MaxTasks THEN Entries \cup ExtraEntries ELSE Entries

MkTask(id, e, n) ==
  LET k == e.kind
      dur == IF k.estimatedDuration = 0 THEN DefaultDuration ELSE k.estimatedDuration
  IN [ id |-> id,
       priority |-> k.priority,
       dueDate |-> IF k.due.at = NoDate THEN NoDate
                   ELSE IF k.due.rel THEN n + k.due.at ELSE k.due.at,
       estimatedDuration |-> k.estimatedDuration,
       scheduledStartTime |-> e.fixedAt,
       scheduledEndTime |-> IF e.fixedAt = NoDate \/ e \in HalfScheduledEntries
                            THEN NoDate ELSE e.fixedAt + dur ]

Requests(ids) ==
  [ taskIds : {ids},
    startDate : {At(StartDay, 0, 0)},
    endDate : {At(StartDay + d, 23, 59) : d \in {0, MaxWindowDays - 1}},
    workingHoursStart : {9},
    workingHoursEnd : {17} ]

----------------------------------------------------------------------------
(* scheduleTasks: set-up (before the main loop) *)

\* the start date is taken as given
startDate_AsGiven == request.startDate

\* startDate.setUTCHours(0, 0, 0, 0)
startDate == setUTCHours(request.startDate, 0)
\* endDate.setUTCHours(23, 59, 59, 999)
endDate == EndOfDay(request.endDate)

\* x goes before the elements of its own score: ties come out reversed
RECURSIVE InsertByScore_BeforeTies(_, _)
InsertByScore_BeforeTies(sorted, x) ==
  IF sorted = << >> THEN << x >>
  ELSE IF Head(sorted).score > x.score
       THEN << Head(sorted) >> \o InsertByScore_BeforeTies(Tail(sorted), x)
       ELSE << x >> \o sorted

\* stable insertion of x into a sequence sorted by descending score
RECURSIVE InsertByScore(_, _)
InsertByScore(sorted, x) ==
  IF sorted = << >> THEN << x >>
  ELSE IF Head(sorted).score >= x.score
       THEN << Head(sorted) >> \o InsertByScore(Tail(sorted), x)
       ELSE << x >> \o sorted

\* tasksWithScores.sort((a, b) => b.score - a.score): a stable sort
RECURSIVE SortByScore(_)
SortByScore(s) ==
  IF s = << >> THEN << >>
  ELSE InsertByScore(SortByScore(SubSeq(s, 1, Len(s) - 1)), s[Len(s)])

tasksToScheduleOf(ts, req) == SelectSeq(ts, LAMBDA t : t.id \in req.taskIds)

\* the requested tasks are not left out
existingScheduledTasksOf_AllScheduled(ts, req) ==
  SelectSeq(ts, LAMBDA t : /\ t.scheduledStartTime # NoDate
                           /\ t.scheduledEndTime # NoDate)

existingScheduledTasksOf(ts, req) ==
  SelectSeq(ts, LAMBDA t : /\ t.id \notin req.taskIds
                           /\ t.scheduledStartTime # NoDate
                           /\ t.scheduledEndTime # NoDate)

sortedTasksOf(ts, req, n) ==
  LET toSchedule == tasksToScheduleOf(ts, req)
  IN SortByScore([k \in 1..Len(toSchedule) |->
                    [task |-> toSchedule[k],
                     score |-> calculateTaskScore(toSchedule[k], n)]])

initialTimeSlots(ts, req, n) ==
  LET existing == existingScheduledTasksOf(ts, req)
  IN [k \in 1..Len(existing) |->
        [startTime |-> existing[k].scheduledStartTime,
         endTime |-> existing[k].scheduledEndTime,
         task |-> existing[k],
         score |-> calculateTaskScore(existing[k], n)]]

\* fixed tasks of the input do not overlap one another
FixedDisjoint(ts) ==
  \A a, b \in 1..Len(ts) :
    (a # b /\ ts[a].scheduledStartTime # NoDate /\ ts[b].scheduledStartTime # NoDate)
      => ~timeSlotsOverlap(ts[a].scheduledStartTime, ts[a].scheduledEndTime,
                           ts[b].scheduledStartTime, ts[b].scheduledEndTime)

Init ==
  /\ now \in Nows
  /\ \E n \in 1..MaxTasks : \E es \in [1..n -> EntriesFor(n)] :
       /\ tasks = [k \in 1..n |-> MkTask(k, es[k], now)]
       /\ {k \in 1..n : Requested(es[k])} # {}
       /\ request \in Requests({k \in 1..n : Requested(es[k])})
       /\ now < request.startDate => request.endDate = At(StartDay + MaxWindowDays - 1, 23, 59)
  /\ FixedDisjoint(tasks)
  /\ pc = "main"
  /\ sortedTasksToSchedule = sortedTasksOf(tasks, request, now)
  /\ timeSlots = initialTimeSlots(tasks, request, now)
  /\ idx = 1
  /\ scheduledTasks = << >>
  /\ tasksToReschedule = << >>
  /\ ridx = 1
  /\ rescheduledTasks = << >>
  /\ result = << >>
  /\ log = << >>
  /\ search = NoSearch
  /\ call = NoCall
  /\ ControllerIdle

----------------------------------------------------------------------------
(* scheduleTasks: one iteration of the main loop *)

earliestStart == setUTCHours(startDate, request.workingHoursStart)

NextAvailable(duration, slots) ==
  findNextAvailableSlot(startDate, duration, slots, request.workingHoursStart,
                        request.workingHoursEnd, endDate)

\* only an overdue task counts as due soon
DueWithinOneDay_OverdueOnly(task) == task.dueDate - now < 0

\* daysUntilDue < 1
DueWithinOneDay(task) == task.dueDate - now < 1 * MinutesPerDay

\* the priority test of the gate is dropped
shouldTryEarlySlotOf_AnyPriority(task, duration, slots) ==
  IF task.dueDate # NoDate
  THEN LET earliestEnd == earliestStart + duration
           hasEarlyConflicts ==
             Len(OverlappingSlots(slots, earliestStart, earliestEnd)) > 0
       IN IF hasEarlyConflicts
          THEN IF DueWithinOneDay(task) THEN TRUE
               ELSE LET nextAvailableSlot == NextAvailable(duration, slots)
                    IN IF nextAvailableSlot # NoDate
                       THEN isDeadlineCritical(task, nextAvailableSlot + duration)
                       ELSE FALSE
          ELSE FALSE
  ELSE FALSE

\* the due-date test of the gate is dropped
shouldTryEarlySlotOf_NoDueTest(task, duration, slots) ==
  IF task.priority \in {"medium", "high"}
  THEN LET earliestEnd == earliestStart + duration
           hasEarlyConflicts ==
             Len(OverlappingSlots(slots, earliestStart, earliestEnd)) > 0
       IN IF hasEarlyConflicts
          THEN IF DueWithinOneDay(task) THEN TRUE
               ELSE LET nextAvailableSlot == NextAvailable(duration, slots)
                    IN IF nextAvailableSlot # NoDate
                       THEN isDeadlineCritical(task, nextAvailableSlot + duration)
                       ELSE FALSE
          ELSE FALSE
  ELSE FALSE

\* the probe of the next available slot is dropped: only a task due within
\* one day is forced
shouldTryEarlySlotOf_NoProbe(task, duration, slots) ==
  IF task.priority \in {"medium", "high"} /\ task.dueDate # NoDate
  THEN LET earliestEnd == earliestStart + duration
           hasEarlyConflicts ==
             Len(OverlappingSlots(slots, earliestStart, earliestEnd)) > 0
       IN hasEarlyConflicts /\ DueWithinOneDay(task)
  ELSE FALSE

shouldTryEarlySlotOf(task, duration, slots) ==
  IF task.priority \in {"medium", "high"} /\ task.dueDate # NoDate
  THEN LET earliestEnd == earliestStart + duration
           hasEarlyConflicts ==
             Len(OverlappingSlots(slots, earliestStart, earliestEnd)) > 0
       IN IF hasEarlyConflicts
          THEN IF DueWithinOneDay(task) THEN TRUE
               ELSE LET nextAvailableSlot == NextAvailable(duration, slots)
                    IN IF nextAvailableSlot # NoDate
                       THEN isDeadlineCritical(task, nextAvailableSlot + duration)
                       ELSE FALSE
          ELSE FALSE
  ELSE FALSE

\* the deadline-critical branch: which conflicting slots are bumped
CriticalBumps(task, s, e, slots, conflicting) ==
  SelectSeq(conflicting, LAMBDA k :
    IF isDeadlineCritical(slots[k].task, slots[k].endTime)
    THEN shouldPrioritizeByDueTime(task, s, e, slots[k].task,
                                   slots[k].startTime, slots[k].endTime)
    ELSE canBeSafelyPushed(slots[k].task, slots[k].endTime,
                           DurationOf(slots[k].task),
                           request.workingHoursStart, request.workingHoursEnd))

\* the due-time comparison is reversed
DueTimeBumps_LaterDue(task, shouldTryEarlySlot, e, slots, conflicting) ==
  IF task.dueDate # NoDate /\ shouldTryEarlySlot /\ DueWithinOneDay(task)
  THEN SelectSeq(conflicting, LAMBDA k :
         /\ slots[k].task.dueDate # NoDate
         /\ task.dueDate > slots[k].task.dueDate
         /\ canCompleteBeforeDueTime(e, DurationOf(slots[k].task),
                                     slots[k].task.dueDate)
         /\ canBeSafelyPushed(slots[k].task, slots[k].endTime,
                              DurationOf(slots[k].task),
                              request.workingHoursStart, request.workingHoursEnd))
  ELSE << >>

\* the due-within-one-day comparison of a task that is not deadline-critical
DueTimeBumps(task, shouldTryEarlySlot, e, slots, conflicting) ==
  IF task.dueDate # NoDate /\ shouldTryEarlySlot /\ DueWithinOneDay(task)
  THEN SelectSeq(conflicting, LAMBDA k :
         /\ slots[k].task.dueDate # NoDate
         /\ task.dueDate < slots[k].task.dueDate
         /\ canCompleteBeforeDueTime(e, DurationOf(slots[k].task),
                                     slots[k].task.dueDate)
         /\ canBeSafelyPushed(slots[k].task, slots[k].endTime,
                              DurationOf(slots[k].task),
                              request.workingHoursStart, request.workingHoursEnd))
  ELSE << >>

InSeq(x, s) == \E n \in 1..Len(s) : s[n] = x

\* a slot of equal score is bumped as well
StandardBumps_EqualScore(score, slots, conflicting, already) ==
  SelectSeq(conflicting, LAMBDA k :
    /\ slots[k].score <= score
    /\ ~isDeadlineCritical(slots[k].task, slots[k].endTime)
    /\ ~InSeq(k, already))

\* a slot the due-time comparison marked is marked again
StandardBumps_Again(score, slots, conflicting, already) ==
  SelectSeq(conflicting, LAMBDA k :
    /\ slots[k].score < score
    /\ ~isDeadlineCritical(slots[k].task, slots[k].endTime))

\* the score-based rule
StandardBumps(score, slots, conflicting, already) ==
  SelectSeq(conflicting, LAMBDA k :
    /\ slots[k].score < score
    /\ ~isDeadlineCritical(slots[k].task, slots[k].endTime)
    /\ ~InSeq(k, already))

tasksToBumpOf(task, score, shouldTryEarlySlot, critical, s, e, slots, conflicting) ==
  IF Len(conflicting) = 0 THEN << >>
  ELSE IF critical THEN CriticalBumps(task, s, e, slots, conflicting)
  ELSE LET byDueTime == DueTimeBumps(task, shouldTryEarlySlot, e, slots, conflicting)
       IN byDueTime \o StandardBumps(score, slots, conflicting, byDueTime)

\* the bumped slots stay in timeSlots
RemoveSlots_KeepAll(slots, bump) == slots

\* timeSlots.splice(timeSlots.indexOf(slot), 1) for every bumped slot
RemoveSlots(slots, bump) ==
  LET keep == SelectSeq([k \in 1..Len(slots) |-> k], LAMBDA k : ~InSeq(k, bump))
  IN [n \in 1..Len(keep) |-> slots[keep[n]]]

\* scheduledTasks.splice(scheduledTasks.findIndex(t => t.id === id), 1)
RECURSIVE RemoveFirstById(_, _)
RemoveFirstById(sched, id) ==
  IF sched = << >> THEN << >>
  ELSE IF Head(sched).id = id THEN Tail(sched)
  ELSE << Head(sched) >> \o RemoveFirstById(Tail(sched), id)

\* the evicted tasks stay in scheduledTasks
RemoveScheduled_KeepAll(sched, slots, bump) == sched

RECURSIVE RemoveScheduled(_, _, _)
RemoveScheduled(sched, slots, bump) ==
  IF bump = << >> THEN sched
  ELSE RemoveScheduled(RemoveFirstById(sched, slots[Head(bump)].task.id),
                       slots, Tail(bump))

\* { ...task, scheduledStartTime, scheduledEndTime }
WithTimes(task, s, e) ==
  [task EXCEPT !.scheduledStartTime = s, !.scheduledEndTime = e]

MkSlot(task, score, s, e) ==
  [startTime |-> s, endTime |-> e, task |-> task, score |-> score]

\* lines 441-460: deadline-critical at the candidate end or, for a forced
\* attempt that is not, at the end of the next available slot
criticalOf(task, duration, shouldTryEarlySlot, availableTime, s, conflicting) ==
  IF shouldTryEarlySlot /\ Len(conflicting) > 0 /\ ~isDeadlineCritical(task, s + duration)
  THEN IF availableTime # NoDate
       THEN isDeadlineCritical(task, availableTime + duration)
       ELSE isDeadlineCritical(task, s + duration)
  ELSE isDeadlineCritical(task, s + duration)

Skipped(slots) ==
  [ skip |-> TRUE, forced |-> FALSE, fallback |-> FALSE, bump |-> << >>,
    slotsLeft |-> slots, startTime |-> NoDate, endTime |-> NoDate ]

\* lines 606-619: the interval the task is placed at
Placed(duration, shouldTryEarlySlot, fallback, bump, slotsLeft, s) ==
  [ skip |-> FALSE, forced |-> shouldTryEarlySlot, fallback |-> fallback,
    bump |-> bump, slotsLeft |-> slotsLeft, startTime |-> s, endTime |-> s + duration ]

\* lines 586-603: a forced attempt that evicted nothing falls back to slot search
AfterFallback(duration, bump, slotsLeft, fallbackTime) ==
  IF fallbackTime = NoDate
  THEN [Skipped(slotsLeft) EXCEPT !.forced = TRUE]
  ELSE Placed(duration, TRUE, TRUE, bump, slotsLeft, fallbackTime)

\* the fallback is forgotten: the task stays at the candidate interval
AfterEviction_NoFallback(duration, shouldTryEarlySlot, s, conflicting, bump, slotsLeft) ==
  Placed(duration, shouldTryEarlySlot, FALSE, bump, slotsLeft, s)

\* lines 570-604
AfterEviction(duration, shouldTryEarlySlot, s, conflicting, bump, slotsLeft) ==
  IF Len(conflicting) > 0 /\ shouldTryEarlySlot /\ Len(bump) = 0
  THEN AfterFallback(duration, bump, slotsLeft, NextAvailable(duration, slotsLeft))
  ELSE Placed(duration, shouldTryEarlySlot, FALSE, bump, slotsLeft, s)

\* lines 462-568
Evict(task, score, slots, duration, shouldTryEarlySlot, s, conflicting, bump) ==
  AfterEviction(duration, shouldTryEarlySlot, s, conflicting, bump,
                RemoveSlots(slots, bump))

\* lines 413-416, 435-460
Resolve(task, score, slots, duration, shouldTryEarlySlot, availableTime, s, conflicting) ==
  Evict(task, score, slots, duration, shouldTryEarlySlot, s, conflicting,
        tasksToBumpOf(task, score, shouldTryEarlySlot,
                      criticalOf(task, duration, shouldTryEarlySlot, availableTime,
                                 s, conflicting),
                      s, s + duration, slots, conflicting))

\* lines 400-439: the candidate interval, forced or from slot search
Candidate(task, score, slots, duration, shouldTryEarlySlot, availableTime) ==
  IF shouldTryEarlySlot
  THEN Resolve(task, score, slots, duration, TRUE, availableTime, earliestStart,
               OverlappingSlots(slots, earliestStart, earliestStart + duration))
  ELSE IF availableTime = NoDate
       THEN Skipped(slots)
       ELSE Resolve(task, score, slots, duration, FALSE, availableTime, availableTime,
                    OverlappingSlots(slots, availableTime, availableTime + duration))

Gate(task, score, slots, duration) ==
  Candidate(task, score, slots, duration,
            shouldTryEarlySlotOf(task, duration, slots),
            NextAvailable(duration, slots))

\* everything one iteration of the main loop decides for a task
Decision(task, score, slots) == Gate(task, score, slots, DurationOf(task))

BumpedTasks(slots, bump) == [n \in 1..Len(bump) |-> slots[bump[n]].task]

PathOf(d) ==
  IF d.skip THEN "skipped"
  ELSE IF d.fallback THEN "fallback"
  ELSE IF d.forced THEN "forced"
  ELSE "ordinary"

\* the iteration's effect on the scheduler's collections
Apply(task, score, d) ==
  /\ timeSlots' = IF d.skip THEN d.slotsLeft
                  ELSE Append(d.slotsLeft, MkSlot(task, score, d.startTime, d.endTime))
  /\ scheduledTasks' =
       IF d.skip THEN RemoveScheduled(scheduledTasks, timeSlots, d.bump)
       ELSE Append(RemoveScheduled(scheduledTasks, timeSlots, d.bump),
                   WithTimes(task, d.startTime, d.endTime))
  /\ tasksToReschedule' = tasksToReschedule \o BumpedTasks(timeSlots, d.bump)
  /\ log' = Append(log,
              [ id |-> task.id,
                path |-> PathOf(d),
                forced |-> d.forced,
                evicted |-> {timeSlots[d.bump[n]].task.id : n \in 1..Len(d.bump)},
                startTime |-> d.startTime,
                endTime |-> d.endTime,
                slotsBefore |-> timeSlots ])

ScheduleTask ==
  /\ pc = "main"
  /\ idx <= Len(sortedTasksToSchedule)
  /\ Apply(sortedTasksToSchedule[idx].task, sortedTasksToSchedule[idx].score,
           Decision(sortedTasksToSchedule[idx].task,
                    sortedTasksToSchedule[idx].score, timeSlots))
  /\ idx' = idx + 1
  /\ UNCHANGED << tasks, request, now, pc, sortedTasksToSchedule, ridx,
                  rescheduledTasks, result, search, call, controllerVars >>

----------------------------------------------------------------------------
(* scheduleTasks: the reschedule pass and the return *)

Replace(task, duration, score, availableTime) ==
  /\ IF availableTime = NoDate
     THEN UNCHANGED << timeSlots, rescheduledTasks >>
     ELSE /\ timeSlots' = Append(timeSlots,
                MkSlot(task, score, availableTime, availableTime + duration))
          /\ rescheduledTasks' = Append(rescheduledTasks,
                WithTimes(task, availableTime, availableTime + duration))
  /\ log' = Append(log,
              [ id |-> task.id,
                path |-> IF availableTime = NoDate THEN "dropped" ELSE "rescheduled",
                forced |-> FALSE,
                evicted |-> {},
                startTime |-> availableTime,
                endTime |-> IF availableTime = NoDate THEN NoDate
                            ELSE availableTime + duration,
                slotsBefore |-> timeSlots ])

RescheduleTask ==
  /\ pc = "main"
  /\ idx > Len(sortedTasksToSchedule)
  /\ ridx <= Len(tasksToReschedule)
  /\ Replace(tasksToReschedule[ridx],
             DurationOf(tasksToReschedule[ridx]),
             calculateTaskScore(tasksToReschedule[ridx], now),
             NextAvailable(DurationOf(tasksToReschedule[ridx]), timeSlots))
  /\ ridx' = ridx + 1
  /\ UNCHANGED << tasks, request, now, pc, sortedTasksToSchedule, idx,
                  scheduledTasks, tasksToReschedule, result, search, call,
                  controllerVars >>

\* the re-placed tasks are returned first
Return_RescheduledFirst ==
  /\ pc = "main"
  /\ idx > Len(sortedTasksToSchedule)
  /\ ridx > Len(tasksToReschedule)
  /\ result' = rescheduledTasks \o scheduledTasks
  /\ pc' = "done"
  /\ UNCHANGED << tasks, request, now, sortedTasksToSchedule, idx, timeSlots,
                  scheduledTasks, tasksToReschedule, ridx, rescheduledTasks, log,
                  search, call, controllerVars >>

\* return [...scheduledTasks, ...rescheduledTasks]
Return ==
  /\ pc = "main"
  /\ idx > Len(sortedTasksToSchedule)
  /\ ridx > Len(tasksToReschedule)
  /\ result' = scheduledTasks \o rescheduledTasks
  /\ pc' = "done"
  /\ UNCHANGED << tasks, request, now, sortedTasksToSchedule, idx, timeSlots,
                  scheduledTasks, tasksToReschedule, ridx, rescheduledTasks, log,
                  search, call, controllerVars >>

Next == ScheduleTask \/ RescheduleTask \/ Return

Spec == Init /\ [][Next]_vars

----------------------------------------------------------------------------
(* Vocabulary of the properties *)

Done == pc = "done"

InResult(id) == \E n \in 1..Len(result) : result[n].id = id
ResultOf(id) == result[CHOOSE n \in 1..Len(result) : result[n].id = id]

IsFixed(t) == /\ t.id \notin request.taskIds
              /\ t.scheduledStartTime # NoDate
              /\ t.scheduledEndTime # NoDate

FixedTasks == {tasks[k] : k \in {n \in 1..Len(tasks) : IsFixed(tasks[n])}}
EvictedIds == {tasksToReschedule[n].id : n \in 1..Len(tasksToReschedule)}

\* the returned tasks together with the fixed tasks that were not evicted
FinalOccupied ==
  {result[n] : n \in 1..Len(result)} \cup {t \in FixedTasks : t.id \notin EvictedIds}

TaskById(id) == tasks[CHOOSE k \in 1..Len(tasks) : tasks[k].id = id]

AllRequested == request.taskIds = {tasks[k].id : k \in 1..Len(tasks)}

OneDayWindow == request.endDate \div MinutesPerDay = request.startDate \div MinutesPerDay

DueSoon(t) == t.dueDate # NoDate /\ t.dueDate >= now /\ t.dueDate - now < MinutesPerDay

----------------------------------------------------------------------------
(* C1: when scheduleTasks returns, no two intervals of different tasks
   overlap, over the returned tasks together with the fixed tasks that were
   not evicted. *)
C1_NoOverlap ==
  Done => \A a, b \in FinalOccupied :
            a.id # b.id => ~timeSlotsOverlap(a.scheduledStartTime, a.scheduledEndTime,
                                             b.scheduledStartTime, b.scheduledEndTime)

(* C2: a task that already carries scheduled times and is not in
   request.taskIds keeps its interval: it stays in the occupied set, is never
   queued for rescheduling and never appears in the returned list. *)
C2_FixedUntouched ==
  \A t \in FixedTasks :
    /\ t.id \notin EvictedIds
    /\ \E n \in 1..Len(timeSlots) :
         /\ timeSlots[n].task.id = t.id
         /\ timeSlots[n].startTime = t.scheduledStartTime
         /\ timeSlots[n].endTime = t.scheduledEndTime
    /\ ~InResult(t.id)

(* C3: every returned task starts at or after workingHoursStart and ends at
   or before workingHoursEnd on the UTC day on which it starts. *)
C3_WithinWorkingHours ==
  Done => \A n \in 1..Len(result) :
            LET s == result[n].scheduledStartTime
                e == result[n].scheduledEndTime
            IN /\ MinuteOfDay(s) >= request.workingHoursStart * MinutesPerHour
               /\ e \div MinutesPerDay = s \div MinutesPerDay
               /\ MinuteOfDay(e) <= request.workingHoursEnd * MinutesPerHour

(* C4: for every returned task, end - start is its estimatedDuration in
   minutes, or 60 when estimatedDuration is absent or 0. *)
C4_DurationKept ==
  \A r \in {scheduledTasks[n] : n \in 1..Len(scheduledTasks)}
        \cup {rescheduledTasks[n] : n \in 1..Len(rescheduledTasks)}
        \cup {result[n] : n \in 1..Len(result)} :
    r.scheduledEndTime - r.scheduledStartTime =
      (IF r.estimatedDuration = 0 THEN 60 ELSE r.estimatedDuration)

PathsTaken == {log[n].path : n \in 1..Len(log)}

\* a run that placed tasks on the ordinary, forced, fallback and reschedule
\* paths, one of them without estimatedDuration
C4_Witness ==
  /\ Done
  /\ {"ordinary", "forced", "fallback", "rescheduled"} \subseteq PathsTaken
  /\ \E n \in 1..Len(result) : result[n].estimatedDuration = 0

----------------------------------------------------------------------------
(* C5: a Medium or High task whose due date lies inside the window is
   returned with an end after its due date only if, when it was placed, no
   conflict-free working-hours interval of its duration ending by its due
   date existed and no occupant of the earliest slot could be evicted by the
   bumping rules. *)

PlacedPaths == {"ordinary", "forced", "fallback", "rescheduled"}

\* the log entry of the step that gave task id its final interval
PlacementOf(id) ==
  log[CHOOSE n \in 1..Len(log) :
        /\ log[n].id = id /\ log[n].path \in PlacedPaths
        /\ \A m \in (n + 1)..Len(log) :
             ~(log[m].id = id /\ log[m].path \in PlacedPaths)]

\* the occupied set the step placed its task into: the slots it found less
\* the ones it evicted
SlotsAt(entry) == SelectSeq(entry.slotsBefore, LAMBDA sl : sl.task.id \notin entry.evicted)

\* candidate starts: every whole hour of the window
HourStarts ==
  {startDate + k * MinutesPerHour : k \in 0..((endDate - startDate) \div MinutesPerHour)}

FreeWorkingInterval(s, duration, slots) ==
  /\ MinuteOfDay(s) >= request.workingHoursStart * MinutesPerHour
  /\ MinuteOfDay(s) + duration <= request.workingHoursEnd * MinutesPerHour
  /\ Len(OverlappingSlots(slots, s, s + duration)) = 0

\* the slots the bumping rules would evict for the task at the earliest slot
EvictableAtEarliest(task, slots) ==
  LET duration == DurationOf(task)
      e == earliestStart + duration
      next == NextAvailable(duration, slots)
      critical == \/ isDeadlineCritical(task, e)
                  \/ next # NoDate /\ isDeadlineCritical(task, next + duration)
  IN tasksToBumpOf(task, calculateTaskScore(task, now), TRUE, critical,
                   earliestStart, e, slots,
                   OverlappingSlots(slots, earliestStart, e))

\* C5: a late Medium/High placement had no free interval ending by the due
\* date and no evictable occupant of the earliest slot
C5_LateOnlyWhenUnavoidable ==
  Done => \A n \in 1..Len(result) :
    LET r == result[n] IN
      ( /\ r.priority \in {"medium", "high"}
        /\ r.dueDate # NoDate
        /\ startDate <= r.dueDate /\ r.dueDate <= endDate
        /\ r.scheduledEndTime > r.dueDate )
      => LET duration == r.scheduledEndTime - r.scheduledStartTime
             slots == SlotsAt(PlacementOf(r.id))
         IN /\ ~\E s \in HourStarts :
                  FreeWorkingInterval(s, duration, slots) /\ s + duration <= r.dueDate
            /\ EvictableAtEarliest(TaskById(r.id), slots) = << >>

----------------------------------------------------------------------------
(* C6: empty calendar, working hours 9-17, one-day window, an Urgent task
   (due in 7 days, 120 min) and a Medium task (due the same day at 13:00,
   60 min, less than one day after now): both are returned, the Medium task
   starts at 09:00, ends by 13:00 and starts before the Urgent task, in
   either input order. *)

NineToFive == request.workingHoursStart = 9 /\ request.workingHoursEnd = 17

Scenario6(u, m) ==
  /\ Len(tasks) = 2 /\ AllRequested /\ OneDayWindow /\ NineToFive
  /\ u # m
  /\ tasks[u].priority = "urgent"
  /\ tasks[u].dueDate = now + 7 * MinutesPerDay
  /\ tasks[u].estimatedDuration = 120
  /\ tasks[m].priority = "medium"
  /\ tasks[m].dueDate = startDate + 13 * MinutesPerHour
  /\ tasks[m].estimatedDuration = 60
  /\ DueSoon(tasks[m])

\* C6: in the scenario the Medium task is returned at 09:00, on time and
\* before the Urgent task
C6_MediumBeforeUrgent ==
  \A u, m \in 1..Len(tasks) :
    (Done /\ Scenario6(u, m)) =>
      /\ InResult(tasks[u].id) /\ InResult(tasks[m].id)
      /\ ResultOf(tasks[m].id).scheduledStartTime = startDate + 9 * MinutesPerHour
      /\ ResultOf(tasks[m].id).scheduledEndTime <= startDate + 13 * MinutesPerHour
      /\ ResultOf(tasks[m].id).scheduledStartTime
           < ResultOf(tasks[u].id).scheduledStartTime

\* the run of the scenario with the Urgent task first in the input
C6_Witness == Done /\ Scenario6(1, 2)

----------------------------------------------------------------------------
(* C7: three Medium 60-minute tasks due at 11:00, 13:00 and 15:00 on the
   window day, all less than one day after now, working hours 9-17, empty
   calendar: all three are returned, each ends by its due time, and the
   start times are in the order of the due times, for every input order. *)

Scenario7 ==
  /\ Len(tasks) = 3 /\ AllRequested /\ NineToFive
  /\ \A k \in 1..3 : /\ tasks[k].priority = "medium"
                     /\ tasks[k].estimatedDuration = 60
                     /\ DueSoon(tasks[k])
  /\ {tasks[k].dueDate : k \in 1..3} =
       {startDate + h * MinutesPerHour : h \in {11, 13, 15}}

\* C7: in the scenario all three tasks are returned on time and their start
\* order is their due order
C7_DueTimeOrder ==
  (Done /\ Scenario7) =>
    /\ \A k \in 1..3 : /\ InResult(tasks[k].id)
                       /\ ResultOf(tasks[k].id).scheduledEndTime <= tasks[k].dueDate
    /\ \A a, b \in 1..3 :
         tasks[a].dueDate < tasks[b].dueDate =>
           ResultOf(tasks[a].id).scheduledStartTime
             < ResultOf(tasks[b].id).scheduledStartTime

----------------------------------------------------------------------------
(* C8: a Low-priority task never evicts a placed task; with a High task
   (due in 3 days, 180 min) and a Low task (due on the window day at 13:00,
   60 min) on an empty calendar the High task starts at workingHoursStart of
   the first window day and the Low task starts after it. *)

Scenario8(h, l) ==
  /\ Len(tasks) = 2 /\ AllRequested /\ h # l
  /\ tasks[h].priority = "high"
  /\ tasks[h].dueDate = now + 3 * MinutesPerDay
  /\ tasks[h].estimatedDuration = 180
  /\ tasks[l].priority = "low"
  /\ tasks[l].dueDate = startDate + 13 * MinutesPerHour
  /\ tasks[l].estimatedDuration = 60

\* C8: no iteration for a Low task evicts; in the scenario High starts at
\* workingHoursStart and Low after it
C8_LowNeverEvicts ==
  /\ \A n \in 1..Len(log) :
       TaskById(log[n].id).priority = "low" => log[n].evicted = {}
  /\ \A h, l \in 1..Len(tasks) :
       (Done /\ Scenario8(h, l)) =>
         /\ InResult(tasks[h].id) /\ InResult(tasks[l].id)
         /\ ResultOf(tasks[h].id).scheduledStartTime
              = startDate + request.workingHoursStart * MinutesPerHour
         /\ ResultOf(tasks[l].id).scheduledStartTime
              > ResultOf(tasks[h].id).scheduledStartTime

\* the scenario has run, and the Low task ended after its due time
C8_Witness ==
  /\ Done /\ Scenario8(1, 2)
  /\ InResult(2) /\ ResultOf(2).scheduledEndTime >= tasks[2].dueDate

----------------------------------------------------------------------------
(* C9: a task without due date, and any Urgent task, is never given a forced
   early-slot attempt and never evicts a placed task; it is placed by
   ordinary slot search at a slot without conflicts, so only a Medium or High
   task with a due date evicts. *)

NeverForces(t) == t.dueDate = NoDate \/ t.priority = "urgent"

\* C9: an undated or Urgent task is never forced, evicts nothing and is
\* placed without conflicts; only Medium/High tasks with a due date evict
C9_NoDueOrUrgentNeverEvicts ==
  \A n \in 1..Len(log) :
    LET t == TaskById(log[n].id) IN
      /\ NeverForces(t) =>
           /\ ~log[n].forced
           /\ log[n].evicted = {}
           /\ log[n].path \in {"ordinary", "skipped", "rescheduled", "dropped"}
           /\ log[n].path = "ordinary" =>
                Len(OverlappingSlots(log[n].slotsBefore,
                                     log[n].startTime, log[n].endTime)) = 0
      /\ log[n].evicted # {} => (t.priority \in {"medium", "high"} /\ t.dueDate # NoDate)

\* an Urgent or undated task was placed in the main pass while a slot of
\* strictly lower score held the earliest slot
C9_Witness ==
  \E n \in 1..Len(log) :
    LET t == TaskById(log[n].id) IN
      /\ NeverForces(t)
      /\ log[n].path = "ordinary"
      /\ \E k \in 1..Len(log[n].slotsBefore) :
           /\ log[n].slotsBefore[k].score < calculateTaskScore(t, now)
           /\ log[n].slotsBefore[k].startTime = earliestStart
           /\ log[n].startTime > earliestStart

----------------------------------------------------------------------------
(* C10: a High and a Medium task, both due less than one day after now, the
   Medium one due earlier, that can run back to back (Medium first) within
   their due times: the Medium task is returned before the High task and
   both end by their due times. *)

Scenario10(h, m) ==
  /\ Len(tasks) = 2 /\ AllRequested /\ h # m
  /\ tasks[h].priority = "high" /\ tasks[m].priority = "medium"
  /\ DueSoon(tasks[h]) /\ DueSoon(tasks[m])
  /\ tasks[m].dueDate < tasks[h].dueDate
  /\ LET dm == IF tasks[m].estimatedDuration = 0 THEN 60 ELSE tasks[m].estimatedDuration
         dh == IF tasks[h].estimatedDuration = 0 THEN 60 ELSE tasks[h].estimatedDuration
         first == startDate + request.workingHoursStart * MinutesPerHour
     IN /\ first + dm <= tasks[m].dueDate
        /\ first + dm + dh <= tasks[h].dueDate
        /\ first + dm + dh <= startDate + request.workingHoursEnd * MinutesPerHour

MediumFirstOnTime(h, m) ==
  /\ InResult(tasks[h].id) /\ InResult(tasks[m].id)
  /\ ResultOf(tasks[m].id).scheduledStartTime < ResultOf(tasks[h].id).scheduledStartTime
  /\ ResultOf(tasks[m].id).scheduledEndTime <= tasks[m].dueDate
  /\ ResultOf(tasks[h].id).scheduledEndTime <= tasks[h].dueDate

\* C10 as stated: in the scenario the Medium task starts before the High
\* task and both end by their due times
C10_MediumBeforeHigh ==
  \A h, m \in 1..Len(tasks) : (Done /\ Scenario10(h, m)) => MediumFirstOnTime(h, m)

\* the High task, placed first at workingHoursStart, passes the scheduler's
\* safe-push test: it ends there before its due date and
\* floor((due - end) * (workingHoursEnd - workingHoursStart) / 24) >= duration
HighSafelyPushable(h) ==
  LET dh == IF tasks[h].estimatedDuration = 0 THEN 60 ELSE tasks[h].estimatedDuration
      e == startDate + request.workingHoursStart * MinutesPerHour + dh
  IN /\ e < tasks[h].dueDate
     /\ ((tasks[h].dueDate - e)
           * (request.workingHoursEnd - request.workingHoursStart)) \div 24 >= dh

\* C10 with the safe-push condition added: in the scenario, when the High
\* task is safely pushable from its first slot, the Medium task starts before
\* it and both end by their due times
C10_MediumBeforePushableHigh ==
  \A h, m \in 1..Len(tasks) :
    (Done /\ Scenario10(h, m) /\ HighSafelyPushable(h)) => MediumFirstOnTime(h, m)

C10_Witness ==
  /\ Done /\ Scenario10(1, 2) /\ HighSafelyPushable(1)
  /\ 1 \in EvictedIds

----------------------------------------------------------------------------
(* findNextAvailableSlot: the calls followed *)

MaxSlots == 2

\* working hours of a request: start and end hour
WorkingHours == { << 9, 17 >>, << 0, 24 >> }

SearchDurations == {60, 240, 600, 960}

Interval(s, e) == [startTime |-> s, endTime |-> e]

\* intervals of occupied slots: placed by an earlier iteration, or the
\* scheduled times of a stored task
SlotIntervals ==
  { Interval(At(StartDay, 9, 0), At(StartDay, 15, 0)),
    Interval(At(StartDay, 9, 0), At(StartDay + 1, 1, 0)),
    Interval(At(StartDay, 10, 0), At(StartDay, 11, 0)),
    Interval(At(StartDay, 15, 0), At(StartDay, 17, 0)),
    Interval(At(StartDay, 16, 0), At(StartDay, 23, 30)),
    Interval(At(StartDay + 1, 9, 0), At(StartDay + 1, 17, 0)) }

\* scheduleTasks is not running
SchedulerIdle ==
  /\ tasks = << >>
  /\ request = [taskIds |-> {}]
  /\ now = 0
  /\ pc = "idle"
  /\ sortedTasksToSchedule = << >>
  /\ idx = 1
  /\ timeSlots = << >>
  /\ scheduledTasks = << >>
  /\ tasksToReschedule = << >>
  /\ ridx = 1
  /\ rescheduledTasks = << >>
  /\ result = << >>
  /\ log = << >>

\* a call as scheduleTasks makes it: from midnight of the start day to the
\* last instant of the end day
SearchInit ==
  /\ \E wh \in WorkingHours, d \in SearchDurations, w \in 0..(MaxWindowDays - 1) :
       \E n \in 0..MaxSlots : \E sl \in [1..n -> SlotIntervals] :
         search = EnterLoop(At(StartDay, 0, 0), d, sl, wh[1], wh[2],
                            EndOfDay(At(StartDay + w, 0, 0)))
  /\ SchedulerIdle
  /\ ControllerIdle
  /\ call = NoCall

SearchSpec == SearchInit /\ [][SearchNext]_vars

\* the loop is a sequential program: it takes its next step
FairSearchSpec == SearchSpec /\ WF_vars(SearchNext)

Returned == search.pc = "returned"
ReturnedNull == search.pc = "null"

\* the step-by-step loop and the operator the scheduler uses compute the same
SearchAgrees ==
  (Returned \/ ReturnedNull) =>
    findNextAvailableSlot(search.startTime, search.duration, search.existingSlots,
                          search.workingHoursStart, search.workingHoursEnd,
                          search.endDate)
      = (IF Returned THEN search.currentTime ELSE NoDate)

----------------------------------------------------------------------------
(* Vocabulary of the slot-search properties *)

Min(a, b) == IF a < b THEN a ELSE b

\* some instant lies in both intervals
Intersect(s1, e1, s2, e2) == Max(s1, s2) < Min(e1, e2)

\* the interval of the call's duration starting at t meets no given slot
MeetsNoSlot(t) ==
  \A k \in 1..Len(search.existingSlots) :
    ~Intersect(t, t + search.duration,
               search.existingSlots[k].startTime, search.existingSlots[k].endTime)

\* where the search starts: the start time, moved to workingHoursStart when
\* its hour lies before it
SnappedStart ==
  IF getUTCHours(search.startTime) < search.workingHoursStart
  THEN setUTCHours(search.startTime, search.workingHoursStart)
  ELSE search.startTime

\* the starts from..upto on the quarter-hour grid; every time of the model
\* is a multiple of 30 minutes
QuarterHours(from, upto) == {t \in from..upto : (t - from) % RetryStep = 0}

\* the interval starting at t ends at a time of day within working hours
EndsInWorkingHours(t) ==
  /\ MinuteOfDay(t + search.duration) >= search.workingHoursStart * MinutesPerHour
  /\ MinuteOfDay(t + search.duration) <= search.workingHoursEnd * MinutesPerHour

\* the interval starting at t lies within the working hours of one day
InWorkingDay(t) ==
  /\ MinuteOfDay(t) >= search.workingHoursStart * MinutesPerHour
  /\ MinuteOfDay(t) + search.duration <= search.workingHoursEnd * MinutesPerHour

----------------------------------------------------------------------------
(* C17: when findNextAvailableSlot returns a start, the interval
   [start, start + duration) overlaps no slot it was given and the start is
   not after the window end date; it returns no slot only when the candidate
   start has passed the window end date. *)
C17_ReturnedSlotFree ==
  /\ Returned => MeetsNoSlot(search.currentTime) /\ search.currentTime <= search.endDate
  /\ ReturnedNull => search.currentTime > search.endDate

\* a start returned after the search moved past conflicting slots
C17_Witness ==
  /\ Returned
  /\ "pastConflicts" \in search.taken
  /\ Len(search.existingSlots) >= 2
  /\ search.currentTime > SnappedStart

----------------------------------------------------------------------------
(* C18: findNextAvailableSlot returns the earliest feasible slot: no start at
   or after the snapped search start and before the returned start has an
   interval that ends within working hours and overlaps no occupied slot;
   when it returns no slot, no such start exists in the window. *)
C18_EarliestFeasible ==
  /\ Returned =>
       ~\E t \in QuarterHours(SnappedStart, search.currentTime - 1) :
          EndsInWorkingHours(t) /\ MeetsNoSlot(t)
  /\ ReturnedNull =>
       ~\E t \in QuarterHours(SnappedStart, search.endDate) :
          EndsInWorkingHours(t) /\ MeetsNoSlot(t)

(* C18, with the interval required to lie within the working hours of one
   day: no start at or after the snapped search start and before the
   returned start has an interval that starts at or after workingHoursStart,
   ends at or before workingHoursEnd of the same day and overlaps no occupied
   slot; when no slot is returned, no such start exists in the window. *)
C18_EarliestWithinWorkingDay ==
  /\ Returned =>
       ~\E t \in QuarterHours(SnappedStart, search.currentTime - 1) :
          InWorkingDay(t) /\ MeetsNoSlot(t)
  /\ ReturnedNull =>
       ~\E t \in QuarterHours(SnappedStart, search.endDate) :
          InWorkingDay(t) /\ MeetsNoSlot(t)

\* a start returned on a later day, after conflicts and a day change: of the
\* earlier starts one is free but outside the working day, another inside
\* the working day but occupied
C18_Witness ==
  /\ Returned
  /\ search.taken = {"pastConflicts", "nextDay"}
  /\ \E t \in QuarterHours(SnappedStart, search.currentTime - 1) :
       MeetsNoSlot(t) /\ ~InWorkingDay(t)
  /\ \E t \in QuarterHours(SnappedStart, search.currentTime - 1) :
       InWorkingDay(t) /\ ~MeetsNoSlot(t)

----------------------------------------------------------------------------
(* C19: the working-hours snap is applied on every retry, so
   findNextAvailableSlot never returns a start whose hour of day is before
   workingHoursStart, even when an occupied slot ends outside working
   hours. *)
C19_NeverBeforeWorkingHours ==
  Returned => getUTCHours(search.currentTime) >= search.workingHoursStart

----------------------------------------------------------------------------
(* C20: when the duration does not fit between the candidate start and
   workingHoursEnd of the candidate's day, the search moves the candidate to
   workingHoursStart of the following day. *)
FitsBeforeWorkingHoursEnd ==
  proposedEnd <= setUTCHours(search.currentTime, search.workingHoursEnd)

C20_CarriesOver ==
  [][ (InLoop /\ ~FitsBeforeWorkingHoursEnd)
        => /\ search'.pc = "loop"
           /\ search'.currentTime =
                setUTCHours(AddDay(search.currentTime), search.workingHoursStart) ]_vars

----------------------------------------------------------------------------
(* C12: the slot search terminates: every iteration that does not return
   strictly advances the candidate start, and the call eventually returns a
   start or no slot. *)
C12_SearchTerminates ==
  /\ [][search'.pc = "loop" => search'.currentTime > search.currentTime]_vars
  /\ <>(Returned \/ ReturnedNull)

\* a call that returned after advancing both to the next day and past
\* conflicting slots
C12_Witness ==
  /\ Returned \/ ReturnedNull
  /\ search.taken = {"nextDay", "pastConflicts"}

----------------------------------------------------------------------------
(* C11: a task that cannot be fitted is an omission, not an error: a
   requested task whose slot search finds no slot inside the window is
   absent from the returned list, and every other requested task is returned
   with the interval it was given. *)

\* the log entry of the last step that handled task id
LastEntryOf(id) ==
  log[CHOOSE n \in 1..Len(log) :
        log[n].id = id /\ \A m \in (n + 1)..Len(log) : log[m].id # id]

\* what slot search answers for the entry's task over the slots the step
\* found, less those it evicted
SearchOf(entry) == NextAvailable(DurationOf(TaskById(entry.id)), SlotsAt(entry))

Unfitted == {"skipped", "dropped"}

----------------------------------------------------------------------------
(* The controller: the handlers over the in-memory task array.  A handler   *)
(* is one step, except scheduleTasksEndpoint, which runs scheduleTasks: its *)
(* validation is a step, then come the scheduler's steps, then the          *)
(* write-back.  No other request is handled in between.                     *)

MaxStore == 3
MaxRequests == 3

\* the longest taskIds array of a schedule request
MaxTaskIds == 2

\* an id no task ever gets ('non-existent-id')
NoSuchId == 0

\* new Date(): requests arrive a minute apart
WallClock == At(StartDay, 8, 0) + clock

\* uuidv4(): an id never given before
uuidv4 == MaxStore + clock + 1

\* bodies of POST /api/tasks; an absent dueDate is NoDate, an absent
\* estimatedDuration 0
CreateBodies ==
  { [title |-> "a", priority |-> "low", dueDate |-> NoDate, estimatedDuration |-> 60],
    [title |-> "b", priority |-> "medium", dueDate |-> At(StartDay, 12, 0), estimatedDuration |-> 0],
    [title |-> "d", priority |-> "low", dueDate |-> NoDate, estimatedDuration |-> 480],
    [title |-> "e", priority |-> "high", dueDate |-> At(StartDay, 13, 0), estimatedDuration |-> 180] }

\* lines 597-607
NewTask(id, body, at) ==
  [ id |-> id,
    title |-> body.title,
    priority |-> body.priority,
    status |-> "todo",
    dueDate |-> body.dueDate,
    estimatedDuration |-> body.estimatedDuration,
    scheduledStartTime |-> NoDate,
    scheduledEndTime |-> NoDate,
    createdAt |-> at,
    updatedAt |-> at ]

StoreIds(st) == {st[k].id : k \in 1..Len(st)}

\* tasks.findIndex(t => t.id === id), counted from 1; 0 when there is none
findIndex(st, id) ==
  IF id \in StoreIds(st)
  THEN CHOOSE k \in 1..Len(st) : st[k].id = id /\ \A j \in 1..(k - 1) : st[j].id # id
  ELSE 0

\* bodies of PUT /api/tasks/:id: the fields supplied, among them fields the
\* validation does not name
UpdateBodies(st, id) ==
  { [title |-> "c"],
    [priority |-> "urgent", status |-> "in_progress"],
    [scheduledStartTime |-> At(StartDay, 9, 0), scheduledEndTime |-> At(StartDay, 10, 0)] }
  \cup { [id |-> j] : j \in StoreIds(st) \ {id} }

\* { ...tasks[taskIndex], ...sanitizedBody }
Spread(t, body) == [f \in DOMAIN t |-> IF f \in DOMAIN body THEN body[f] ELSE t[f]]

\* sanitizedBody.f ? new Date(sanitizedBody.f) : tasks[taskIndex].f
DateOr(body, f, old) == IF f \in DOMAIN body /\ body[f] # NoDate THEN body[f] ELSE old

\* lines 635-648
updatedTaskOf(t, body, at) ==
  [ Spread(t, body) EXCEPT
      !.dueDate = DateOr(body, "dueDate", t.dueDate),
      !.scheduledStartTime = DateOr(body, "scheduledStartTime", t.scheduledStartTime),
      !.scheduledEndTime = DateOr(body, "scheduledEndTime", t.scheduledEndTime),
      !.updatedAt = at ]

Range(q) == {q[k] : k \in 1..Len(q)}

\* bodies of POST /api/tasks/schedule
ScheduleBodies(st) ==
  [ taskIds : UNION {[1..n -> StoreIds(st) \cup {NoSuchId}] : n \in 1..MaxTaskIds},
    startDate : {At(StartDay, 0, 0)},
    endDate : {At(StartDay, 23, 59)},
    workingHoursStart : {9},
    workingHoursEnd : {17} ]

\* tasks.filter(t => scheduleRequest.taskIds.includes(t.id))
requestedTasksOf(st, taskIds) == SelectSeq(st, LAMBDA t : t.id \in Range(taskIds))

NotFound == [status |-> 404, message |-> "Task not found", data |-> << >>]
BadRequest == [status |-> 400, message |-> "Some task IDs do not exist", data |-> << >>]
Answer(status, message, data) == [status |-> status, message |-> message, data |-> data]
Pending == [status |-> 0, message |-> "", data |-> << >>]

\* the ids deleted with success so far
DeletedIds ==
  httpReq.deleted \cup (IF httpReq.op = "deleteTask" /\ httpRes.status = 200
                        THEN {httpReq.id} ELSE {})

\* the request, the store as the handler found it, and the ids deleted
\* before it
Handling(op, id, body) ==
  [op |-> op, id |-> id, body |-> body, before |-> store, deleted |-> DeletedIds]

\* the ids a client asks for: of stored tasks, of deleted ones, of none
RequestIds == StoreIds(store) \cup DeletedIds \cup {NoSuchId}

\* the server is between two requests
Idle == pc = "idle" /\ clock < MaxRequests

\* lines 572-588
getTaskById ==
  /\ Idle
  /\ \E id \in RequestIds :
       /\ httpReq' = Handling("getTaskById", id, << >>)
       /\ httpRes' = IF findIndex(store, id) = 0 THEN NotFound
                     ELSE Answer(200, "", store[findIndex(store, id)])
  /\ clock' = clock + 1
  /\ UNCHANGED << store, schedulerVars, search, call >>

\* lines 593-615
createTask ==
  /\ Idle
  /\ Len(store) < MaxStore
  /\ \E body \in CreateBodies :
       /\ httpReq' = Handling("createTask", uuidv4, body)
       /\ store' = Append(store, NewTask(uuidv4, body, WallClock))
       /\ httpRes' = Answer(201, "", NewTask(uuidv4, body, WallClock))
  /\ clock' = clock + 1
  /\ UNCHANGED << schedulerVars, search, call >>

\* lines 620-656
updateTask ==
  /\ Idle
  /\ \E id \in RequestIds : \E body \in UpdateBodies(store, id) :
       /\ httpReq' = Handling("updateTask", id, body)
       /\ IF findIndex(store, id) = 0
          THEN httpRes' = NotFound /\ UNCHANGED store
          ELSE /\ store' = [store EXCEPT ![findIndex(store, id)] =
                                            updatedTaskOf(@, body, WallClock)]
               /\ httpRes' = Answer(200, "", updatedTaskOf(store[findIndex(store, id)],
                                                           body, WallClock))
  /\ clock' = clock + 1
  /\ UNCHANGED << schedulerVars, search, call >>

\* tasks.splice(taskIndex, 1)
Splice(st, k) == SubSeq(st, 1, k - 1) \o SubSeq(st, k + 1, Len(st))

\* lines 661-679
deleteTask ==
  /\ Idle
  /\ \E id \in RequestIds :
       /\ httpReq' = Handling("deleteTask", id, << >>)
       /\ IF findIndex(store, id) = 0
          THEN httpRes' = NotFound /\ UNCHANGED store
          ELSE /\ store' = Splice(store, findIndex(store, id))
               /\ httpRes' = Answer(200, "Task deleted successfully", << >>)
  /\ clock' = clock + 1
  /\ UNCHANGED << schedulerVars, search, call >>

\* part_004, lines 314-355: scheduleTasks(ts, r) is entered at time n
EnterScheduler(ts, r, n) ==
  /\ tasks' = ts
  /\ request' = r
  /\ now' = n
  /\ pc' = "main"
  /\ sortedTasksToSchedule' = sortedTasksOf(ts, r, n)
  /\ timeSlots' = initialTimeSlots(ts, r, n)
  /\ idx' = 1
  /\ scheduledTasks' = << >>
  /\ tasksToReschedule' = << >>
  /\ ridx' = 1
  /\ rescheduledTasks' = << >>
  /\ result' = << >>
  /\ log' = << >>

\* the scheduler's locals are gone once it has returned
LeaveScheduler ==
  /\ tasks' = << >>
  /\ request' = [taskIds |-> {}]
  /\ now' = 0
  /\ pc' = "idle"
  /\ sortedTasksToSchedule' = << >>
  /\ idx' = 1
  /\ timeSlots' = << >>
  /\ scheduledTasks' = << >>
  /\ tasksToReschedule' = << >>
  /\ ridx' = 1
  /\ rescheduledTasks' = << >>
  /\ result' = << >>
  /\ log' = << >>

\* lines 684-699: the validation; scheduleTasks is entered when it passes
scheduleTasksEndpoint ==
  /\ Idle
  /\ \E body \in ScheduleBodies(store) :
       /\ httpReq' = Handling("scheduleTasksEndpoint", NoSuchId, body)
       /\ IF Len(requestedTasksOf(store, body.taskIds)) # Len(body.taskIds)
          THEN /\ httpRes' = BadRequest
               /\ clock' = clock + 1
               /\ UNCHANGED schedulerVars
          ELSE /\ httpRes' = Pending
               /\ EnterScheduler(store, [body EXCEPT !.taskIds = Range(@)], WallClock)
               /\ UNCHANGED clock
  /\ UNCHANGED << store, search, call >>

\* lines 702-712: scheduledTasks.forEach(...)
RECURSIVE WrittenBack(_, _, _)
WrittenBack(st, scheduled, at) ==
  IF scheduled = << >> THEN st
  ELSE WrittenBack(
         IF findIndex(st, Head(scheduled).id) = 0 THEN st
         ELSE [st EXCEPT ![findIndex(st, Head(scheduled).id)] =
                 [@ EXCEPT !.scheduledStartTime = Head(scheduled).scheduledStartTime,
                           !.scheduledEndTime = Head(scheduled).scheduledEndTime,
                           !.updatedAt = at]],
         Tail(scheduled), at)

\* lines 701-717: scheduleTasks has returned
WriteBack ==
  /\ pc = "done"
  /\ httpReq.op = "scheduleTasksEndpoint"
  /\ store' = WrittenBack(store, result, WallClock)
  /\ httpRes' = Answer(200, "", result)
  /\ clock' = clock + 1
  /\ LeaveScheduler
  /\ UNCHANGED << httpReq, search, call >>

\* the store after some tasks were created
StoreInit ==
  /\ \E n \in 0..MaxStore : \E bs \in [1..n -> CreateBodies] :
       store = [k \in 1..n |-> NewTask(k, bs[k], At(StartDay, 7, 0) + k)]
  /\ httpReq = [op |-> "none", deleted |-> {}]
  /\ httpRes = Pending
  /\ clock = 0
  /\ SchedulerIdle
  /\ search = NoSearch
  /\ call = NoCall

StoreNext ==
  \/ getTaskById
  \/ createTask
  \/ updateTask
  \/ deleteTask
  \/ scheduleTasksEndpoint
  \/ ScheduleTask
  \/ RescheduleTask
  \/ Return
  \/ WriteBack

StoreSpec == StoreInit /\ [][StoreNext]_vars

----------------------------------------------------------------------------
(* Vocabulary of the controller properties *)

\* the handler of the last request has answered
Answered(op) == httpReq.op = op /\ pc = "idle"

Returned200 == httpRes.status = 200

InData(id) == \E n \in 1..Len(httpRes.data) : httpRes.data[n].id = id

UniqueIds == \A a, b \in 1..Len(store) : a # b => store[a].id # store[b].id

----------------------------------------------------------------------------
(* C13: scheduleTasksEndpoint rejects the whole request when an id in
   taskIds matches no stored task: it answers 400 'Some task IDs do not
   exist', does not run the scheduler and leaves the store unchanged. *)
C13_UnknownIdRejected ==
  ( /\ httpReq.op = "scheduleTasksEndpoint"
    /\ \E k \in 1..Len(httpReq.body.taskIds) :
         httpReq.body.taskIds[k] \notin StoreIds(httpReq.before) )
  => /\ pc = "idle"
     /\ httpRes = BadRequest
     /\ store = httpReq.before

----------------------------------------------------------------------------
(* C14: after a successful schedule request every stored task whose id is in
   the returned list carries exactly the returned scheduledStartTime and
   scheduledEndTime and keeps its other fields except updatedAt; the stored
   tasks that are not in the returned list are unchanged. *)
C14_WriteBackFrame ==
  (Answered("scheduleTasksEndpoint") /\ Returned200) =>
    /\ Len(store) = Len(httpReq.before)
    /\ \A k \in 1..Len(store) :
         IF InData(store[k].id)
         THEN /\ \A n \in 1..Len(httpRes.data) :
                   httpRes.data[n].id = store[k].id =>
                     /\ store[k].scheduledStartTime = httpRes.data[n].scheduledStartTime
                     /\ store[k].scheduledEndTime = httpRes.data[n].scheduledEndTime
              /\ \A f \in DOMAIN store[k] \ {"scheduledStartTime", "scheduledEndTime", "updatedAt"} :
                   store[k][f] = httpReq.before[k][f]
         ELSE store[k] = httpReq.before[k]

----------------------------------------------------------------------------
(* C15: getTaskById, updateTask and deleteTask with an id that is not in the
   store answer 404 'Task not found' and leave the store unchanged; after a
   successful deleteTask(id), a later getTaskById(id) answers 404. *)
C15_NotFound ==
  /\ ( /\ httpReq.op \in {"getTaskById", "updateTask", "deleteTask"}
       /\ httpReq.id \notin StoreIds(httpReq.before) )
     => httpRes = NotFound /\ store = httpReq.before
  /\ (httpReq.op = "getTaskById" /\ httpReq.id \in httpReq.deleted)
     => httpRes = NotFound

----------------------------------------------------------------------------
(* C16: updateTask on an existing task keeps the task's id and createdAt and
   every field the body does not supply; only the supplied fields and
   updatedAt change, no other task changes, and the ids in the store stay
   unique. *)
C16_UpdateKeeps ==
  /\ (httpReq.op = "updateTask" /\ Returned200) =>
       /\ Len(store) = Len(httpReq.before)
       /\ \A k \in 1..Len(store) :
            IF k = findIndex(httpReq.before, httpReq.id)
            THEN /\ store[k].id = httpReq.before[k].id
                 /\ store[k].createdAt = httpReq.before[k].createdAt
                 /\ \A f \in DOMAIN store[k] \ (DOMAIN httpReq.body \cup {"updatedAt"}) :
                      store[k][f] = httpReq.before[k][f]
            ELSE store[k] = httpReq.before[k]
  /\ UniqueIds

----------------------------------------------------------------------------
(* C21: in the main pass a task is given a forced early-slot attempt exactly
   when it is Medium or High, has a due date, at least one occupied slot
   overlaps the interval of its duration starting at workingHoursStart on
   the first window day, and either its due date is less than one day after
   now (overdue included) or ordinary slot search finds a slot and the task
   would end there strictly after its due date. *)

MainPaths == {"ordinary", "forced", "fallback", "skipped"}

\* the conditions of the claim, over the occupied set the step found
EarlyAttemptDue(task, slots) ==
  LET duration == DurationOf(task)
      next == NextAvailable(duration, slots)
  IN /\ task.priority \in {"medium", "high"}
     /\ task.dueDate # NoDate
     /\ \E k \in 1..Len(slots) :
          timeSlotsOverlap(earliestStart, earliestStart + duration,
                           slots[k].startTime, slots[k].endTime)
     /\ \/ task.dueDate - now < MinutesPerDay
        \/ next # NoDate /\ next + duration > task.dueDate

\* C21: a step of the main pass makes the forced attempt exactly under the
\* conditions of the claim
C21_ForcedAttemptGate ==
  \A n \in 1..Len(log) :
    log[n].path \in MainPaths =>
      (log[n].forced <=> EarlyAttemptDue(TaskById(log[n].id), log[n].slotsBefore))

\* the entry's task is due a day or more after now
DueLater(entry) == TaskById(entry.id).dueDate - now >= MinutesPerDay

\* one run forced a task due a day or more after now because its next free
\* slot ends too late, and did not force a dated Medium or High task that met
\* an occupied early slot
C21_Witness ==
  /\ Done
  /\ \E n \in 1..Len(log) :
       /\ log[n].path \in MainPaths /\ log[n].forced /\ DueLater(log[n])
  /\ \E n \in 1..Len(log) :
       /\ log[n].path \in MainPaths /\ ~log[n].forced
       /\ TaskById(log[n].id).priority \in {"medium", "high"}
       /\ TaskById(log[n].id).dueDate # NoDate
       /\ Len(OverlappingSlots(log[n].slotsBefore, earliestStart,
                               earliestStart + DurationOf(TaskById(log[n].id)))) > 0

----------------------------------------------------------------------------
(* C22: a forced early-slot attempt that evicts no conflicting slot does not
   place the task at the early slot: the task is placed at the slot ordinary
   slot search returns, or omitted when there is none, and the occupied set,
   the output and the reschedule queue are otherwise exactly as before. *)

\* the step appended an entry for a forced attempt that evicted nothing
ForcedWithoutEviction ==
  /\ Len(log') = Len(log) + 1
  /\ log'[Len(log')].path \in MainPaths
  /\ log'[Len(log')].forced
  /\ log'[Len(log')].evicted = {}

\* what the step leaves behind when slot search answers next for the task
FellBackTo(task, next) ==
  /\ tasksToReschedule' = tasksToReschedule
  /\ IF next = NoDate
     THEN /\ timeSlots' = timeSlots
          /\ scheduledTasks' = scheduledTasks
          /\ log'[Len(log')].path = "skipped"
     ELSE /\ next # earliestStart
          /\ log'[Len(log')].startTime = next
          /\ timeSlots' = Append(timeSlots,
               [startTime |-> next, endTime |-> next + DurationOf(task),
                task |-> task, score |-> calculateTaskScore(task, now)])
          /\ scheduledTasks' = Append(scheduledTasks,
               [task EXCEPT !.scheduledStartTime = next,
                            !.scheduledEndTime = next + DurationOf(task)])

\* C22: a forced attempt without eviction leaves the collections as they
\* were, but for the task at the slot ordinary search gives it
C22_FallbackFrame ==
  [][ForcedWithoutEviction =>
       FellBackTo(TaskById(log'[Len(log')].id),
                  NextAvailable(DurationOf(TaskById(log'[Len(log')].id)), timeSlots))]_vars

\* a finished run in which a forced attempt evicted nothing and the task was
\* placed later than the early slot, every occupant of the early slot kept
C22_Witness ==
  /\ Done
  /\ \E n \in 1..Len(log) :
       /\ log[n].path = "fallback" /\ log[n].forced /\ log[n].evicted = {}
       /\ log[n].startTime > earliestStart
       /\ Len(OverlappingSlots(log[n].slotsBefore, earliestStart,
                               earliestStart + DurationOf(TaskById(log[n].id)))) > 0
       /\ InResult(log[n].id)

----------------------------------------------------------------------------
(* C23: when the task being placed is deadline-critical (at the forced early
   slot, or according to the probe of the next free slot), every conflicting
   slot whose task is not itself deadline-critical is evicted if and only if
   it can be safely pushed: it has no due date, or its current end is
   strictly before its due date and the working minutes between that end
   and the due date are at least its duration; the score plays no part.  So
   a Medium task that would miss its deadline at the next free slot evicts
   an Urgent task without due date and ends by its own due date. *)

\* minutes of working hours from the epoch up to t
WorkingMinutesUpTo(t) ==
  (t \div MinutesPerDay) * (request.workingHoursEnd - request.workingHoursStart) * MinutesPerHour
  + Min(Max(MinuteOfDay(t) - request.workingHoursStart * MinutesPerHour, 0),
        (request.workingHoursEnd - request.workingHoursStart) * MinutesPerHour)

\* minutes of working hours between two instants
WorkingMinutesBetween(from, to) == WorkingMinutesUpTo(to) - WorkingMinutesUpTo(from)

\* safely pushed, as the claim defines it
HasRoomBeforeDue(slot) ==
  \/ slot.task.dueDate = NoDate
  \/ /\ slot.endTime < slot.task.dueDate
     /\ WorkingMinutesBetween(slot.endTime, slot.task.dueDate) >= DurationOf(slot.task)

\* the entry's task is deadline-critical at the early slot or at the end of
\* the next free slot
CriticalWhenForced(entry) ==
  LET task == TaskById(entry.id)
      next == NextAvailable(DurationOf(task), entry.slotsBefore)
  IN \/ isDeadlineCritical(task, earliestStart + DurationOf(task))
     \/ next # NoDate /\ isDeadlineCritical(task, next + DurationOf(task))

\* the slots of the entry's occupied set that overlap the early slot
EarlyConflicts(entry) ==
  {k \in 1..Len(entry.slotsBefore) :
     timeSlotsOverlap(earliestStart, earliestStart + DurationOf(TaskById(entry.id)),
                      entry.slotsBefore[k].startTime, entry.slotsBefore[k].endTime)}

\* the entry's task would miss its deadline at the next free slot
MissesAtNextSlot(entry) ==
  LET task == TaskById(entry.id)
      next == NextAvailable(DurationOf(task), entry.slotsBefore)
  IN next # NoDate /\ wouldMissDueDate(task, next + DurationOf(task))

\* C23: a deadline-critical forced attempt evicts exactly the safely pushable
\* among the conflicting slots that are not deadline-critical, and a Medium
\* task that would miss its deadline at the next free slot evicts an Urgent
\* undated occupant and ends by its due date
C23_CriticalEvictsPushable ==
  \A n \in 1..Len(log) :
    (log[n].path \in MainPaths /\ log[n].forced /\ CriticalWhenForced(log[n])) =>
      /\ \A k \in EarlyConflicts(log[n]) :
           ~isDeadlineCritical(log[n].slotsBefore[k].task, log[n].slotsBefore[k].endTime) =>
             (log[n].slotsBefore[k].task.id \in log[n].evicted
                <=> HasRoomBeforeDue(log[n].slotsBefore[k]))
      /\ (TaskById(log[n].id).priority = "medium" /\ MissesAtNextSlot(log[n])) =>
           \A k \in EarlyConflicts(log[n]) :
             (/\ log[n].slotsBefore[k].task.priority = "urgent"
              /\ log[n].slotsBefore[k].task.dueDate = NoDate) =>
               /\ log[n].slotsBefore[k].task.id \in log[n].evicted
               /\ log[n].endTime <= TaskById(log[n].id).dueDate

----------------------------------------------------------------------------
(* C24: when the task being placed is not deadline-critical, the score rule
   evicts a conflicting slot only if the slot's score is strictly lower than
   the task's score and the slot's task is not deadline-critical at its
   current end; a slot of equal or higher score is never evicted by the
   score rule, and no slot is added to the eviction list twice. *)

\* lines 507-546: the due-time comparison marks the slot for the entry's task
MarkedByDueTime(entry, slot) ==
  LET task == TaskById(entry.id) IN
    /\ task.dueDate # NoDate
    /\ task.dueDate - now < MinutesPerDay
    /\ slot.task.dueDate # NoDate
    /\ task.dueDate < slot.task.dueDate
    /\ earliestStart + DurationOf(task) + DurationOf(slot.task) <= slot.task.dueDate
    /\ canBeSafelyPushed(slot.task, slot.endTime, DurationOf(slot.task),
                         request.workingHoursStart, request.workingHoursEnd)

\* the slots the entry's step evicted
EvictedSlots(entry) ==
  {k \in 1..Len(entry.slotsBefore) : entry.slotsBefore[k].task.id \in entry.evicted}

TimesQueued(id) ==
  Cardinality({m \in 1..Len(tasksToReschedule) : tasksToReschedule[m].id = id})

\* C24: a step whose task is not deadline-critical evicts, besides the slots
\* the due-time comparison marks, only slots of strictly lower score that
\* are not deadline-critical, and queues every evicted task once
C24_ScoreRule ==
  \A n \in 1..Len(log) :
    (log[n].path \in MainPaths /\ log[n].forced /\ ~CriticalWhenForced(log[n])) =>
      \A k \in EvictedSlots(log[n]) :
        /\ ~MarkedByDueTime(log[n], log[n].slotsBefore[k]) =>
             /\ log[n].slotsBefore[k].score < calculateTaskScore(TaskById(log[n].id), now)
             /\ ~isDeadlineCritical(log[n].slotsBefore[k].task,
                                    log[n].slotsBefore[k].endTime)
        /\ TimesQueued(log[n].slotsBefore[k].task.id) = 1

\* a finished run in which a task that was not deadline-critical evicted a
\* slot of lower score that the due-time comparison had not marked, and a
\* task that was not deadline-critical met a slot of its own score, itself
\* not deadline-critical, and left it in place
C24_Witness ==
  /\ Done
  /\ \E n \in 1..Len(log) :
       /\ log[n].path \in MainPaths /\ log[n].forced /\ ~CriticalWhenForced(log[n])
       /\ \E k \in EvictedSlots(log[n]) : ~MarkedByDueTime(log[n], log[n].slotsBefore[k])
  /\ \E n \in 1..Len(log) :
       /\ log[n].path \in MainPaths /\ log[n].forced /\ ~CriticalWhenForced(log[n])
       /\ \E k \in EarlyConflicts(log[n]) :
            /\ log[n].slotsBefore[k].score = calculateTaskScore(TaskById(log[n].id), now)
            /\ ~isDeadlineCritical(log[n].slotsBefore[k].task,
                                   log[n].slotsBefore[k].endTime)
            /\ k \notin EvictedSlots(log[n])

----------------------------------------------------------------------------
(* shouldPrioritizeByDueTime on its own: Init draws the task being placed   *)
(* with its candidate interval and the conflicting task with its slot, the  *)
(* step Arbitrate is the call.                                              *)

\* the task being placed: due dates around the candidate interval, or none
ArbitrationDues == {NoDate} \cup {At(StartDay, h, 0) : h \in {10, 11, 12, 13}}
ArbitrationDurations == {0, 120}

ArbitrationTask(p, due, dur) ==
  [ id |-> 0, priority |-> p, dueDate |-> due, estimatedDuration |-> dur,
    scheduledStartTime |-> NoDate, scheduledEndTime |-> NoDate ]

\* lines 475-484: the arguments scheduleTasks passes; the candidate interval
\* is the early slot, the conflicting slot starts at or after it
ArbitrationInit ==
  /\ \E p \in {"medium", "high"}, due \in ArbitrationDues, dur \in ArbitrationDurations :
       \E bdue \in ArbitrationDues, bdur \in ArbitrationDurations, bh \in {9, 10} :
         call = [ pc |-> "called",
                  currentTask |-> ArbitrationTask(p, due, dur),
                  currentScheduledStart |-> At(StartDay, 9, 0),
                  currentScheduledEnd |->
                    At(StartDay, 9, 0) + DurationOf(ArbitrationTask(p, due, dur)),
                  conflictingTask |-> ArbitrationTask("high", bdue, bdur),
                  conflictingScheduledStart |-> At(StartDay, bh, 0),
                  conflictingScheduledEnd |->
                    At(StartDay, bh, 0) + DurationOf(ArbitrationTask("high", bdue, bdur)),
                  value |-> FALSE ]
  /\ SchedulerIdle
  /\ search = NoSearch
  /\ ControllerIdle

Arbitrate ==
  /\ call.pc = "called"
  /\ call' = [call EXCEPT
                !.pc = "returned",
                !.value = shouldPrioritizeByDueTime(
                            call.currentTask, call.currentScheduledStart,
                            call.currentScheduledEnd, call.conflictingTask,
                            call.conflictingScheduledStart, call.conflictingScheduledEnd)]
  /\ UNCHANGED << schedulerVars, search, controllerVars >>

ArbitrationSpec == ArbitrationInit /\ [][Arbitrate]_vars

----------------------------------------------------------------------------
(* C25: due-time arbitration between the task A being placed and the task B
   of a conflicting slot, both deadline-critical.  If A's due date is
   strictly earlier, A evicts B when A cannot end by its due date at the
   candidate slot, and otherwise only when B could still end by its due date
   if started at A's candidate end.  If B's due date is earlier or equal, B
   keeps its slot when B ends by its due date where it is and A could end by
   its due date if started at B's end; when B does not meet its deadline
   where it is, A evicts B exactly when A meets its own deadline at the
   candidate slot.  If either task has no due date, A never evicts B. *)

ArbitrationReturned == call.pc = "returned"

\* the task ends by its due date in an interval that ends at e
EndsByDue(task, e) == e <= task.dueDate

C25_Verdict(a, aEnd, b, bEnd, evicts) ==
  /\ (a.dueDate = NoDate \/ b.dueDate = NoDate) => ~evicts
  /\ (a.dueDate # NoDate /\ b.dueDate # NoDate /\ a.dueDate < b.dueDate) =>
       IF ~EndsByDue(a, aEnd) THEN evicts
       ELSE (evicts <=> EndsByDue(b, aEnd + DurationOf(b)))
  /\ (a.dueDate # NoDate /\ b.dueDate # NoDate /\ b.dueDate <= a.dueDate) =>
       /\ (EndsByDue(b, bEnd) /\ EndsByDue(a, bEnd + DurationOf(a))) => ~evicts
       /\ ~EndsByDue(b, bEnd) => (evicts <=> EndsByDue(a, aEnd))

\* C25: the value of shouldPrioritizeByDueTime is the verdict of the claim
C25_DueTimeArbitration ==
  ArbitrationReturned =>
    C25_Verdict(call.currentTask, call.currentScheduledEnd,
                call.conflictingTask, call.conflictingScheduledEnd, call.value)

\* a returned call in which B is due first, misses its deadline where it is,
\* and is evicted because A meets its own at the candidate slot
C25_Witness ==
  /\ ArbitrationReturned
  /\ call.conflictingTask.dueDate # NoDate
  /\ call.conflictingTask.dueDate < call.currentTask.dueDate
  /\ call.conflictingScheduledEnd > call.conflictingTask.dueDate
  /\ call.currentScheduledEnd <= call.currentTask.dueDate
  /\ call.value

----------------------------------------------------------------------------
(* C26: at every step each task has at most one slot in the occupied set and
   appears at most once across the output and the reschedule queue together;
   an evicted task is removed from both the occupied set and the output
   before it is queued, it is queued at most once, and the returned list
   never contains the same task id twice (the input ids being distinct). *)

TaskIds == {tasks[k].id : k \in 1..Len(tasks)}

\* how many elements of a sequence of tasks bear the id
CountIn(s, id) == Cardinality({k \in 1..Len(s) : s[k].id = id})

SlotsOf(id) == Cardinality({k \in 1..Len(timeSlots) : timeSlots[k].task.id = id})

\* the output built so far: placed directly, then re-placed
OutputSoFar == scheduledTasks \o rescheduledTasks

\* the part of the reschedule queue that is still to be re-placed
PendingQueue == SubSeq(tasksToReschedule, ridx, Len(tasksToReschedule))

\* C26: one slot, one place in output or queue, one queueing and one returned
\* element at most for every task; a queued task has neither slot nor output
C26_AtMostOnce ==
  \A id \in TaskIds :
    /\ SlotsOf(id) <= 1
    /\ CountIn(OutputSoFar, id) + CountIn(PendingQueue, id) <= 1
    /\ CountIn(tasksToReschedule, id) <= 1
    /\ CountIn(PendingQueue, id) = 1 => SlotsOf(id) = 0
    /\ CountIn(result, id) <= 1

\* a finished run that returns a requested task it had placed, evicted and
\* placed again, beside the task that evicted it
C26_Witness ==
  /\ Done
  /\ \E n \in 1..Len(log) :
       /\ log[n].path \in MainPaths
       /\ InResult(log[n].id)
       /\ \E id \in log[n].evicted :
            /\ id \in request.taskIds
            /\ InResult(id)
            /\ SlotsOf(id) = 1

----------------------------------------------------------------------------
(* C27: evicted tasks are re-placed only after every requested task has been
   processed, one at a time in eviction order, each by ordinary slot search
   from the window start against the occupied set that already contains all
   earlier placements; the reschedule pass never evicts; the returned list
   is the directly placed tasks in processing order followed by the
   re-placed tasks. *)

ReschedulePaths == {"rescheduled", "dropped"}

\* the occupied set a step leaves behind
SlotsAfter(entry) ==
  IF entry.startTime = NoDate THEN SlotsAt(entry)
  ELSE Append(SlotsAt(entry),
              [startTime |-> entry.startTime, endTime |-> entry.endTime,
               task |-> TaskById(entry.id),
               score |-> calculateTaskScore(TaskById(entry.id), now)])

\* the step of the main pass that evicted the task
EvictionStep(id) == CHOOSE n \in 1..Len(log) : id \in log[n].evicted

IdsOf(s) == [k \in 1..Len(s) |-> s[k].id]

\* the entries of the main pass whose placement lasted, in processing order
DirectEntries ==
  SelectSeq(log, LAMBDA e : /\ e.path \in MainPaths /\ e.path # "skipped"
                            /\ e.id \notin EvictedIds)

\* the entries of the reschedule pass that placed their task, in order
ReplacedEntries == SelectSeq(log, LAMBDA e : e.path = "rescheduled")

\* C27: the reschedule pass follows the main pass, takes the queue in order,
\* places by slot search over everything placed so far and evicts nothing;
\* the returned list is the lasting direct placements, then the re-placed
C27_ReschedulePass ==
  /\ \A n \in 1..Len(log) :
       /\ log[n].path \in ReschedulePaths <=> n > Len(sortedTasksToSchedule)
       /\ n > 1 => log[n].slotsBefore = SlotsAfter(log[n - 1])
       /\ n > Len(sortedTasksToSchedule) =>
            /\ log[n].id = tasksToReschedule[n - Len(sortedTasksToSchedule)].id
            /\ log[n].evicted = {}
            /\ log[n].startTime =
                 NextAvailable(DurationOf(TaskById(log[n].id)), log[n].slotsBefore)
  /\ \A i, j \in 1..Len(tasksToReschedule) :
       i < j => EvictionStep(tasksToReschedule[i].id) <= EvictionStep(tasksToReschedule[j].id)
  /\ Done => IdsOf(result) = IdsOf(DirectEntries) \o IdsOf(ReplacedEntries)

\* a finished run that re-placed two evicted tasks, the second against the
\* slot of the first, and returned them behind a directly placed task
C27_Witness ==
  /\ Done
  /\ Len(ReplacedEntries) >= 2
  /\ Len(DirectEntries) >= 1
  /\ Len(result) = Len(DirectEntries) + Len(ReplacedEntries)

----------------------------------------------------------------------------
(* C28: requested tasks are processed in descending score order, ties broken
   by input-list order; consequently among tasks of equal score, none of
   which is forced to the early slot, and with an initially empty occupied
   set, a task earlier in the input never starts later than an
   equal-duration task later in the input. *)

\* the position of the task in the input list
InputPos(id) == CHOOSE k \in 1..Len(tasks) : tasks[k].id = id

ScoreOf(id) == calculateTaskScore(TaskById(id), now)

\* the main pass takes the requested tasks by descending score, equal scores
\* in input order
ProcessedByScore ==
  /\ {sortedTasksToSchedule[n].task.id : n \in 1..Len(sortedTasksToSchedule)}
       = request.taskIds
  /\ \A i, j \in 1..Len(sortedTasksToSchedule) :
       i < j =>
         \/ ScoreOf(sortedTasksToSchedule[i].task.id) > ScoreOf(sortedTasksToSchedule[j].task.id)
         \/ /\ ScoreOf(sortedTasksToSchedule[i].task.id) = ScoreOf(sortedTasksToSchedule[j].task.id)
            /\ InputPos(sortedTasksToSchedule[i].task.id)
                 < InputPos(sortedTasksToSchedule[j].task.id)
  /\ \A n \in 1..Len(log) :
       n <= Len(sortedTasksToSchedule) => log[n].id = sortedTasksToSchedule[n].task.id

WasForced(id) == \E n \in 1..Len(log) : log[n].id = id /\ log[n].forced

\* two returned tasks of equal score and equal duration, neither forced, the
\* first earlier in the input
TiedPair(a, b) ==
  /\ InResult(a) /\ InResult(b)
  /\ ScoreOf(a) = ScoreOf(b)
  /\ DurationOf(TaskById(a)) = DurationOf(TaskById(b))
  /\ InputPos(a) < InputPos(b)
  /\ ~WasForced(a) /\ ~WasForced(b)

InitiallyEmpty == FixedTasks = {}

----------------------------------------------------------------------------
(* C29: the occupied set at the start of a run consists of exactly the tasks
   that have both scheduled times and whose id is not in request.taskIds;
   the previous scheduled times of a requested task never block any
   placement in that run. *)

\* the occupied set the run started with
InitialSlots == IF log = << >> THEN timeSlots ELSE log[1].slotsBefore

Occupancy(id, s, e) == [id |-> id, startTime |-> s, endTime |-> e]

\* a requested task that came with scheduled times
IsStale(t) == t.id \in request.taskIds /\ t.scheduledStartTime # NoDate

\* the slot was made by a step of this run
MadeByThisRun(slot) ==
  \E m \in 1..Len(log) :
    /\ log[m].id = slot.task.id
    /\ log[m].startTime = slot.startTime
    /\ log[m].endTime = slot.endTime

\* C29: the run starts from the intervals of the tasks outside the request
\* that have both times, one slot each, and every slot of a requested task
\* was made by the run itself
C29_SeedExcludesRequested ==
  /\ {Occupancy(InitialSlots[k].task.id, InitialSlots[k].startTime, InitialSlots[k].endTime) :
        k \in 1..Len(InitialSlots)}
       = {Occupancy(tasks[k].id, tasks[k].scheduledStartTime, tasks[k].scheduledEndTime) :
            k \in {j \in 1..Len(tasks) : /\ tasks[j].id \notin request.taskIds
                                         /\ tasks[j].scheduledStartTime # NoDate
                                         /\ tasks[j].scheduledEndTime # NoDate}}
  /\ \A i, j \in 1..Len(InitialSlots) :
       InitialSlots[i].task.id = InitialSlots[j].task.id => i = j
  /\ \A n \in 1..Len(log) : \A k \in 1..Len(log[n].slotsBefore) :
       log[n].slotsBefore[k].task.id \in request.taskIds =>
         MadeByThisRun(log[n].slotsBefore[k])

\* a finished run that started from the slot of a fixed task and returned a
\* task inside the interval a requested task had brought along
C29_Witness ==
  /\ Done
  /\ Len(InitialSlots) > 0
  /\ \E k \in 1..Len(tasks), n \in 1..Len(result) :
       /\ IsStale(tasks[k])
       /\ timeSlotsOverlap(result[n].scheduledStartTime, result[n].scheduledEndTime,
                           tasks[k].scheduledStartTime, tasks[k].scheduledEndTime)

----------------------------------------------------------------------------
(* scheduleTasks called twice over the same task list at the same instant:  *)
(* when the first call has returned, CallAgain keeps its result in call and *)
(* starts the second call with a request that differs from the first in the *)
(* time-of-day parts of startDate and endDate only.                         *)

\* times of day a request may carry in its dates, in minutes after midnight
StartTimesOfDay == {0, 15 * MinutesPerHour + 30}
EndTimesOfDay == {6 * MinutesPerHour, MinutesPerDay - 1}

\* the requests that differ from r in the time-of-day parts of the dates only
SameDaysAs(r) ==
  { [r EXCEPT !.startDate = setUTCHours(r.startDate, 0) + s,
              !.endDate = setUTCHours(r.endDate, 0) + e] :
      s \in StartTimesOfDay, e \in EndTimesOfDay } \ {r}

TwinInit == Init /\ Len(tasks) < MaxTasks

CallAgain ==
  /\ pc = "done"
  /\ call = NoCall
  /\ \E r \in SameDaysAs(request) : EnterScheduler(tasks, r, now)
  /\ call' = [pc |-> "second", request |-> request, result |-> result]
  /\ UNCHANGED << search, controllerVars >>

TwinNext == ScheduleTask \/ RescheduleTask \/ Return \/ CallAgain

TwinSpec == TwinInit /\ [][TwinNext]_vars

----------------------------------------------------------------------------
(* C30: the time-of-day parts of request.startDate and request.endDate have
   no effect: the window always runs from 00:00:00.000 UTC of the start day
   to 23:59:59.999 UTC of the end day, and two requests that differ only in
   those time-of-day parts produce identical schedules. *)

DayOf(t) == t \div MinutesPerDay

\* the window the run works with is the whole of the days named
WholeDays ==
  /\ startDate = DayOf(request.startDate) * MinutesPerDay
  /\ endDate = DayOf(request.endDate) * MinutesPerDay + (MinutesPerDay - 1)

SecondCall == call.pc = "second"

\* C30: the window is the whole days, and the second call returns what the
\* first returned
C30_TimeOfDayIgnored ==
  /\ pc # "idle" => WholeDays
  /\ (SecondCall /\ Done) => result = call.result

\* both calls have returned a task; the second request started after
\* working hours had begun and ended before they began
C30_Witness ==
  /\ SecondCall /\ Done
  /\ Len(result) > 0
  /\ MinuteOfDay(request.startDate) > request.workingHoursStart * MinutesPerHour
  /\ MinuteOfDay(request.endDate) < request.workingHoursStart * MinutesPerHour
  /\ MinuteOfDay(call.request.startDate) = 0

----------------------------------------------------------------------------
(* calculateTaskScore and isDeadlineCritical on their own: Init draws two   *)
(* tasks, the instant now and a candidate end time; the step Score is the   *)
(* call of calculateTaskScore for either task, the step Critical the call   *)
(* of isDeadlineCritical for the first task at the candidate end.           *)

\* due dates as distances from now: around each boundary of the urgency bands
ScoringDueOffsets ==
  {-1, 0} \cup UNION { {d * MinutesPerDay - 1, d * MinutesPerDay} : d \in {1, 3, 7, 14} }

ScoringDues(n) == {NoDate} \cup {n + o : o \in ScoringDueOffsets}

\* candidate ends: before, at and after a due date of ScoringDues
ScoringEnds(n) == {n - 1, n, n + MinutesPerDay}

ScoringPriorities == {"low", "medium", "high", "urgent"}

ScoringInit ==
  /\ \E n \in Nows : \E e \in ScoringEnds(n) :
       \E p \in ScoringPriorities, due \in ScoringDues(n) :
         \E q \in ScoringPriorities, odue \in ScoringDues(n) :
           call = [ pc |-> "called",
                    now |-> n,
                    task |-> ArbitrationTask(p, due, 0),
                    other |-> ArbitrationTask(q, odue, 0),
                    scheduledEndTime |-> e,
                    score |-> 0,
                    otherScore |-> 0,
                    critical |-> FALSE ]
  /\ SchedulerIdle
  /\ search = NoSearch
  /\ ControllerIdle

Score ==
  /\ call.pc = "called"
  /\ call' = [call EXCEPT
                !.pc = "scored",
                !.score = calculateTaskScore(call.task, call.now),
                !.otherScore = calculateTaskScore(call.other, call.now)]
  /\ UNCHANGED << schedulerVars, search, controllerVars >>

Critical ==
  /\ call.pc = "called"
  /\ call' = [call EXCEPT
                !.pc = "judged",
                !.critical = isDeadlineCritical(call.task, call.scheduledEndTime)]
  /\ UNCHANGED << schedulerVars, search, controllerVars >>

ScoringNext == Score \/ Critical

ScoringSpec == ScoringInit /\ [][ScoringNext]_vars

----------------------------------------------------------------------------
(* C31: a task's score is priorityWeight * 10 + urgency, with weights Low 1,
   Medium 2, High 3, Urgent 4 and urgency 0 without a due date, 10 when the
   due date is before now, 8 when it is less than 1 day after now, 6 when
   less than 3 days, 4 when less than 7 days, 2 when less than 14 days and 1
   otherwise, each lower bound inclusive and each upper bound exclusive. *)

Scored == call.pc = "scored"

WeightOf(p) == [low |-> 1, medium |-> 2, high |-> 3, urgent |-> 4][p]

\* the due date lies from lo days (inclusive) to hi days (exclusive) after n
DueWithinDays(due, n, lo, hi) ==
  /\ n + lo * MinutesPerDay <= due
  /\ due < n + hi * MinutesPerDay

UrgencyIs(due, n, u) ==
  /\ due = NoDate => u = 0
  /\ (due # NoDate /\ due < n) => u = 10
  /\ (due # NoDate /\ DueWithinDays(due, n, 0, 1)) => u = 8
  /\ (due # NoDate /\ DueWithinDays(due, n, 1, 3)) => u = 6
  /\ (due # NoDate /\ DueWithinDays(due, n, 3, 7)) => u = 4
  /\ (due # NoDate /\ DueWithinDays(due, n, 7, 14)) => u = 2
  /\ (due # NoDate /\ due >= n + 14 * MinutesPerDay) => u = 1

\* C31: the score returned is the weight times ten plus the urgency of the
\* band the due date lies in
C31_ScoreFormula ==
  Scored =>
    UrgencyIs(call.task.dueDate, call.now,
              call.score - WeightOf(call.task.priority) * 10)

\* a scored High task due exactly one day after now: urgency 6, score 36
C31_Witness ==
  /\ Scored
  /\ call.task.priority = "high"
  /\ call.task.dueDate = call.now + MinutesPerDay
  /\ call.score = 36

----------------------------------------------------------------------------
(* C32: isDeadlineCritical(task, end) is true if and only if the task's
   priority is Medium or High, the task has a due date, and end is strictly
   after the due date; it is false for every Low task, every Urgent task,
   every task without a due date, and when end equals the due date. *)

Judged == call.pc = "judged"

\* C32: the value returned is true exactly for a Medium or High task with a
\* due date strictly before the candidate end
C32_DeadlineCritical ==
  Judged =>
    /\ call.critical <=>
         /\ call.task.priority \in {"medium", "high"}
         /\ call.task.dueDate # NoDate
         /\ call.scheduledEndTime > call.task.dueDate
    /\ call.task.priority \in {"low", "urgent"} => ~call.critical
    /\ call.task.dueDate = NoDate => ~call.critical
    /\ call.scheduledEndTime = call.task.dueDate => ~call.critical

\* a judged Medium task whose candidate end is its due date: not critical
C32_Witness ==
  /\ Judged
  /\ call.task.priority = "medium"
  /\ call.task.dueDate # NoDate
  /\ call.scheduledEndTime = call.task.dueDate
  /\ ~call.critical

----------------------------------------------------------------------------
(* C37: for any two tasks and any now, the task with the strictly higher
   priority never has a lower score than the other, and the two scores are
   equal only when the lower-priority task is overdue (urgency 10), the
   higher-priority task has no due date (urgency 0) and their priorities are
   adjacent. *)

HigherPriority(a, b) == WeightOf(a.priority) > WeightOf(b.priority)

Overdue(task, n) == task.dueDate # NoDate /\ task.dueDate < n

\* the one tie between tasks of different priority
AdjacentOverdueTie(hi, lo, n) ==
  /\ WeightOf(hi.priority) = WeightOf(lo.priority) + 1
  /\ hi.dueDate = NoDate
  /\ Overdue(lo, n)

\* C37: priority dominates urgency in the score, up to the one tie
C37_PriorityDominates ==
  (Scored /\ HigherPriority(call.task, call.other)) =>
    /\ call.score >= call.otherScore
    /\ call.score = call.otherScore =>
         AdjacentOverdueTie(call.task, call.other, call.now)

\* scored: a High task without due date ties with an overdue Medium task
C37_Witness ==
  /\ Scored
  /\ call.task.priority = "high" /\ call.other.priority = "medium"
  /\ AdjacentOverdueTie(call.task, call.other, call.now)
  /\ call.score = call.otherScore

----------------------------------------------------------------------------
(* C34: whenever a task with a due date is evicted after canBeSafelyPushed
   returned true for it (so it ended before its due date in its old slot),
   the slot it receives in the reschedule pass ends on or before its due
   date, and it is not dropped from the result. *)

\* lines 493-505 and 531-541: the entry's step evicted the slot on the word
\* of canBeSafelyPushed
PushedAsSafe(entry, slot) ==
  /\ entry.path \in MainPaths
  /\ slot.task.id \in entry.evicted
  /\ slot.task.dueDate # NoDate
  /\ canBeSafelyPushed(slot.task, slot.endTime, DurationOf(slot.task),
                       request.workingHoursStart, request.workingHoursEnd)
  /\ IF CriticalWhenForced(entry)
     THEN ~isDeadlineCritical(slot.task, slot.endTime)
     ELSE MarkedByDueTime(entry, slot)

\* the slots of the run that were evicted on the word of canBeSafelyPushed
PushedSlots ==
  UNION { {log[n].slotsBefore[k] : k \in {j \in 1..Len(log[n].slotsBefore) :
                                            PushedAsSafe(log[n], log[n].slotsBefore[j])}} :
          n \in 1..Len(log) }

ReplacedInTime(slot) ==
  /\ InResult(slot.task.id)
  /\ ResultOf(slot.task.id).scheduledEndTime <= slot.task.dueDate

\* C34: every task pushed as safe is returned with an interval that ends by
\* its due date
C34_PushedMeetsDueDate ==
  Done => \A slot \in PushedSlots : ReplacedInTime(slot)

\* a finished run in which a task pushed as safe was given a new interval
\* that ends by its due date
C34_PushedInTime ==
  /\ Done
  /\ \E slot \in PushedSlots :
       /\ slot.endTime < slot.task.dueDate
       /\ ReplacedInTime(slot)
       /\ ResultOf(slot.task.id).scheduledStartTime > slot.startTime

----------------------------------------------------------------------------
(* C36: scheduleTasksEndpoint accepts (does not answer 400 'Some task IDs do
   not exist') every request in which each element of taskIds is the id of
   a stored task, including a taskIds array that names the same stored task
   more than once. *)

AllIdsStored ==
  \A k \in 1..Len(httpReq.body.taskIds) : httpReq.body.taskIds[k] \in StoreIds(httpReq.before)

NamesTaskTwice ==
  \E j, k \in 1..Len(httpReq.body.taskIds) :
    j # k /\ httpReq.body.taskIds[j] = httpReq.body.taskIds[k]

\* C36: a schedule request all of whose ids are stored is not answered 400
C36_StoredIdsAccepted ==
  (httpReq.op = "scheduleTasksEndpoint" /\ AllIdsStored) => httpRes # BadRequest

\* a schedule request that names two different stored tasks was accepted
C36_DistinctIdsAccepted ==
  /\ Answered("scheduleTasksEndpoint")
  /\ AllIdsStored /\ ~NamesTaskTwice
  /\ Len(httpReq.body.taskIds) > 1
  /\ Returned200

----------------------------------------------------------------------------
(* The store under createTask, deleteTask and scheduleTasksEndpoint alone:  *)
(* no task is updated, so scheduled times come from schedule requests only. *)

CalendarNext ==
  \/ createTask
  \/ deleteTask
  \/ scheduleTasksEndpoint
  \/ ScheduleTask
  \/ RescheduleTask
  \/ Return
  \/ WriteBack

CalendarSpec == StoreInit /\ [][CalendarNext]_vars

----------------------------------------------------------------------------
(* C33: starting from a store in which no task has scheduled times, after
   any sequence of createTask, deleteTask and successful
   scheduleTasksEndpoint calls, no two stored tasks have overlapping
   scheduled intervals; in particular a requested task that is omitted from
   a result does not keep an earlier interval that now overlaps a newly
   placed task. *)

HasInterval(t) == t.scheduledStartTime # NoDate /\ t.scheduledEndTime # NoDate

StoredOverlap(a, b) ==
  /\ HasInterval(a) /\ HasInterval(b)
  /\ timeSlotsOverlap(a.scheduledStartTime, a.scheduledEndTime,
                      b.scheduledStartTime, b.scheduledEndTime)

\* C33: between two requests no two stored tasks overlap
C33_StoreNoOverlap ==
  pc = "idle" =>
    \A j, k \in 1..Len(store) : j # k => ~StoredOverlap(store[j], store[k])

\* a schedule request has answered and two stored tasks carry intervals,
\* one after the other
C33_TwoStoredIntervals ==
  /\ Answered("scheduleTasksEndpoint") /\ Returned200
  /\ \E j, k \in 1..Len(store) :
       /\ HasInterval(store[j]) /\ HasInterval(store[k])
       /\ store[j].scheduledEndTime <= store[k].scheduledStartTime

----------------------------------------------------------------------------
(* A schedule request sent twice: after a successful schedule request has   *)
(* answered, scheduleTasksEndpointAgain handles the same body once more,    *)
(* with the clock reading of the first call; call keeps the store the       *)
(* first call left behind.                                                  *)

\* the clock reading scheduleTasks took in the request just answered
LastNow == WallClock - 1

scheduleTasksEndpointAgain ==
  /\ pc = "idle"
  /\ call = NoCall
  /\ httpReq.op = "scheduleTasksEndpoint" /\ Returned200
  /\ Len(requestedTasksOf(store, httpReq.body.taskIds)) = Len(httpReq.body.taskIds)
  /\ call' = [pc |-> "repeated", store |-> store, answeredAt |-> clock + 1]
  /\ httpReq' = Handling("scheduleTasksEndpoint", NoSuchId, httpReq.body)
  /\ httpRes' = Pending
  /\ EnterScheduler(store, [httpReq.body EXCEPT !.taskIds = Range(@)], LastNow)
  /\ UNCHANGED << store, clock, search >>

RepeatNext == CalendarNext \/ scheduleTasksEndpointAgain

RepeatSpec == StoreInit /\ [][RepeatNext]_vars

----------------------------------------------------------------------------
(* C35: repeating a successful schedule request immediately with the same
   body and the same now leaves the stored schedule unchanged: after the
   second call every stored task has the same scheduledStartTime and
   scheduledEndTime as after the first call. *)

\* the repeated request has just answered
RepeatAnswered ==
  /\ call.pc = "repeated"
  /\ pc = "idle"
  /\ clock = call.answeredAt

SameSchedule(st, old) ==
  /\ Len(st) = Len(old)
  /\ \A k \in 1..Len(st) :
       /\ st[k].id = old[k].id
       /\ st[k].scheduledStartTime = old[k].scheduledStartTime
       /\ st[k].scheduledEndTime = old[k].scheduledEndTime

\* C35: the repeated request leaves every stored interval as it was
C35_RepeatKeepsSchedule == RepeatAnswered => SameSchedule(store, call.store)

\* the repeated request has answered with two tasks and the store holds two
\* intervals
C35_Witness ==
  /\ RepeatAnswered
  /\ Returned200 /\ Len(httpRes.data) = 2
  /\ \A k \in 1..Len(store) : HasInterval(store[k])
  /\ Len(store) = 2
====
